---- MODULE Spec2Model ----
(***************************************************************************)
(* gitlab-tokens-exporter: the state actor (src/state_actor.rs), the       *)
(* refresh task it spawns on Update (get_gitlab_data) and the three        *)
(* pipelines that task joins.                                              *)
(*                                                                         *)
(* Texts (String) are sequences of 4-tuples: a rendered token block is     *)
(* <<"block", kind, entity, cycle>>, an error text is <<prefix, cause,0,0>>.*)
(* The cycle number in a block stands for the data GitLab held when that   *)
(* refresh fetched it.                                                     *)
(*                                                                         *)
(* Two specifications share the actor:                                     *)
(*   Spec        the actor, the timer, readers and concurrent refreshes,   *)
(*               each refresh taken as one step from spawn to its send     *)
(*   SpecRefresh the actor and one refresh at a time, every pipeline,      *)
(*               chunk and per-entity task a step of its own               *)
(***************************************************************************)
EXTENDS Integers, Sequences, FiniteSets

\* `const MAX_CONCURRENT_REQUESTS_DEFAULT: u16 = 10;`
MAX_CONCURRENT_REQUESTS_DEFAULT == 10

\* ---------------------------------------------------------------- bounds
MaxUpdates == 2          \* Update messages the timer sends
MaxGets == 2             \* Get messages readers send
MailboxCap == 2          \* capacity of the actor's mpsc channel (main.rs creates it with 8)
NumEntities == 2         \* projects, and groups, GitLab lists (SpecRefresh)
MaxPages == 3            \* pages a paginated endpoint serves (SpecPages)
NumGroups == 3           \* groups GitLab holds (SpecGroups)
NumCalls == 2            \* calls of get_full_path in one run of the groups pipeline
MaxRuns == 2             \* runs of the groups pipeline, one per refresh

VARIABLES
    state,          \* gitlab_tokens_actor: `state`
    actor_pc,       \* gitlab_tokens_actor: "start" | "returned" | "loop" | "exited"
    mailbox,        \* the mpsc channel: messages sent and not yet received
    config,         \* max_concurrent_requests, skip_users_tokens (env, read once)
    gitlab,         \* what the GitLab API holds: listings, tokens or none
    refresh,        \* per Update: the get_gitlab_data task
    pipe,           \* per refresh and pipeline: the pipeline task
    timer_sent,     \* Update messages the timer has sent
    gets_sent,      \* Get messages readers have sent
    replies,        \* what the oneshot receivers of the Gets were sent
    set_log,        \* history: the payloads of the Set messages processed
    n_update,       \* history: Update messages processed
    pages,          \* the pages a paginated GitLab endpoint serves
    get_all,        \* OffsetBasedPagination::get_all: its locals and its return
    gitlab_groups,  \* the groups GitLab holds: id, parent_id, path
    group_id_cache, \* get_groups_tokens_metrics: the HashMap behind the mutex
    cache_lock,     \* the call that holds the mutex of group_id_cache, or 0
    get_full_path,  \* per call of group::get_full_path: its locals
    cache_run,      \* the run of get_groups_tokens_metrics that is followed
    ever_cached,    \* history: group ids stored in the cache of any run
    groups_pipeline, \* get_groups_tokens_metrics of the run: "run" | "ok" | "err"
    env,            \* the environment variables gitlab_tokens_actor reads
    senders,        \* the live Sender handles of the actor's mailbox
    timer_pc,       \* timer_actor: "run" | "returned", or "dropped" with its task
    render_in,      \* a token task's inputs: owner, fetched tokens, users, flag, date
    render          \* the token task: its position, `res`, and the tokens it built

actor_vars == <<state, actor_pc, mailbox, config, gitlab, refresh, pipe,
                timer_sent, gets_sent, replies, set_log, n_update>>

pagination_vars == <<pages, get_all>>

resolver_vars == <<gitlab_groups, group_id_cache, cache_lock, get_full_path, cache_run,
                   ever_cached, groups_pipeline>>

startup_vars == <<env, senders, timer_pc>>

render_vars == <<render_in, render>>

vars == <<actor_vars, pagination_vars, resolver_vars, startup_vars, render_vars>>

Cycles == 1..MaxUpdates
Pipelines == {"projects", "groups", "users"}

\* ---------------------------------------------------------------- texts
Block(kind, e, c) == <<"block", kind, e, c>>
ErrText(prefix, cause) == <<<<prefix, cause, 0, 0>>>>

Ok(text) == [ok |-> TRUE, val |-> text]
Err(text) == [ok |-> FALSE, val |-> text]

\* ---------------------------------------------------------------- ActorState
Loading == [tag |-> "Loading", val |-> <<>>]
NoToken == [tag |-> "NoToken", val |-> <<>>]
Loaded(data) == [tag |-> "Loaded", val |-> data]
Error(err) == [tag |-> "Error", val |-> err]

\* ---------------------------------------------------------------- Message
MsgGet(g) == [type |-> "Get", respond_to |-> g, data |-> Ok(<<>>)]
MsgUpdate == [type |-> "Update", respond_to |-> 0, data |-> Ok(<<>>)]
MsgSet(result) == [type |-> "Set", respond_to |-> 0, data |-> result]

\* ---------------------------------------------------------------- helpers
Last(s) == s[Len(s)]

Min(a, b) == IF a < b THEN a ELSE b

\* The sequences that list every element of S once.
Perms(S) ==
    {f \in [1..Cardinality(S) -> S] : \A i, j \in 1..Cardinality(S) : f[i] = f[j] => i = j}

\* ---------------------------------------------------------------- actor
\* `let mut state = ActorState::Loading;`
InitialState_NoToken == NoToken

InitialState == Loading

\* The `Message::Set(gitlab_data)` arm: the new value of `state`.
ApplySet_KeepLoadedOnErr(st, gitlab_data) ==
    IF gitlab_data.ok
    THEN IF gitlab_data.val = <<>> THEN NoToken ELSE Loaded(gitlab_data.val)
    ELSE IF st.tag = "Loaded" THEN st ELSE Error(gitlab_data.val)

ApplySet_EmptyIsLoading(st, gitlab_data) ==
    IF gitlab_data.ok
    THEN IF gitlab_data.val = <<>> THEN Loading ELSE Loaded(gitlab_data.val)
    ELSE Error(gitlab_data.val)

ApplySet(st, gitlab_data) ==
    IF gitlab_data.ok
    THEN IF gitlab_data.val = <<>> THEN NoToken ELSE Loaded(gitlab_data.val)
    ELSE Error(gitlab_data.val)

\* `respond_to.send(state.clone())`: what a Get is answered with.
GetReply_LoadingWhileRefreshing(st) ==
    IF \E c \in Cycles : refresh[c].pc \in {"spawned", "join", "send"} THEN Loading ELSE st

GetReply(st) == st

\* No arm of `match msg` leaves the loop: after a message the actor receives again.
NextPc_BreakOnErr(msg) ==
    IF msg.type = "Set" /\ ~msg.data.ok THEN "exited" ELSE "loop"

NextPc(msg) == "loop"

\* Refreshes spawned and not yet returned.
InFlight == {c \in Cycles : refresh[c].pc \in {"spawned", "join", "send"}}

\* The next unused slot for a get_gitlab_data task.
NextCycle == 1 + Cardinality({c \in Cycles : refresh[c].pc # "idle"})

Receivable_NeedsRoom ==
    /\ actor_pc = "loop"
    /\ mailbox # <<>>
    /\ Head(mailbox).type = "Update" => Len(mailbox) < MailboxCap

\* `receiver.recv().await` returns a message; the actor holds no other await.
Receivable == actor_pc = "loop" /\ mailbox # <<>>

\* `Message::Get { respond_to }`
ActorGet ==
    /\ Receivable
    /\ Head(mailbox).type = "Get"
    /\ replies' = replies \cup
          {[id |-> Head(mailbox).respond_to, state |-> GetReply(state),
            sets |-> Len(set_log), updates |-> n_update,
            inflight |-> Cardinality(InFlight)]}
    /\ mailbox' = Tail(mailbox)
    /\ actor_pc' = NextPc(Head(mailbox))
    /\ UNCHANGED <<state, config, gitlab, refresh, pipe, timer_sent, gets_sent,
                   set_log, n_update,
                   pagination_vars, resolver_vars, startup_vars, render_vars>>

SendersAfterSpawn_Moved(s) == IF "actor" \in s THEN (s \ {"actor"}) \cup {"refresh"} ELSE s

\* `sender.clone()`: the spawned refresh gets a Sender of its own and the actor
\* keeps the one it was given. A Sender of another channel adds none to the
\* mailbox.
SendersAfterSpawn(s) == IF "actor" \in s THEN s \cup {"refresh"} ELSE s

\* `Message::Update`: tokio::spawn(get_gitlab_data(..)); `state` is not touched.
ActorUpdate_Dedup ==
    /\ Receivable
    /\ Head(mailbox).type = "Update"
    /\ refresh' = IF InFlight = {}
                  THEN [refresh EXCEPT ![NextCycle].pc = "spawned"]
                  ELSE refresh
    /\ n_update' = n_update + 1
    /\ mailbox' = Tail(mailbox)
    /\ actor_pc' = NextPc(Head(mailbox))
    /\ senders' = SendersAfterSpawn(senders)
    /\ UNCHANGED <<state, config, gitlab, pipe, timer_sent, gets_sent, replies, set_log,
                   pagination_vars, resolver_vars, env, timer_pc, render_vars>>

ActorUpdate_ResetsState ==
    /\ Receivable
    /\ Head(mailbox).type = "Update"
    /\ refresh' = [refresh EXCEPT ![NextCycle].pc = "spawned"]
    /\ n_update' = n_update + 1
    /\ mailbox' = Tail(mailbox)
    /\ actor_pc' = NextPc(Head(mailbox))
    /\ senders' = SendersAfterSpawn(senders)
    /\ state' = Loading
    /\ UNCHANGED <<config, gitlab, pipe, timer_sent, gets_sent, replies, set_log,
                   pagination_vars, resolver_vars, env, timer_pc, render_vars>>

ActorUpdate ==
    /\ Receivable
    /\ Head(mailbox).type = "Update"
    /\ refresh' = [refresh EXCEPT ![NextCycle].pc = "spawned"]
    /\ n_update' = n_update + 1
    /\ mailbox' = Tail(mailbox)
    /\ actor_pc' = NextPc(Head(mailbox))
    /\ senders' = SendersAfterSpawn(senders)
    /\ UNCHANGED <<state, config, gitlab, pipe, timer_sent, gets_sent, replies, set_log,
                   pagination_vars, resolver_vars, env, timer_pc, render_vars>>

\* `Message::Set(gitlab_data)`
ActorSet ==
    /\ Receivable
    /\ Head(mailbox).type = "Set"
    /\ state' = ApplySet(state, Head(mailbox).data)
    /\ set_log' = Append(set_log, Head(mailbox).data)
    /\ mailbox' = Tail(mailbox)
    /\ actor_pc' = NextPc(Head(mailbox))
    /\ UNCHANGED <<config, gitlab, refresh, pipe, timer_sent, gets_sent, replies, n_update,
                   pagination_vars, resolver_vars, startup_vars, render_vars>>

\* ---------------------------------------------------------------- senders
\* The actor's function has not returned: it owns the Receiver, and a send
\* into a channel whose Receiver is dropped fails.
ReceiverAlive == actor_pc \in {"start", "loop"}

\* timer_actor: `sender.send(Message::Update).await`, suspended while the channel is full.
TimerSend ==
    /\ timer_pc = "run"
    /\ ReceiverAlive
    /\ "timer" \in senders
    /\ timer_sent < MaxUpdates
    /\ Len(mailbox) < MailboxCap
    /\ mailbox' = Append(mailbox, MsgUpdate)
    /\ timer_sent' = timer_sent + 1
    /\ UNCHANGED <<state, actor_pc, config, gitlab, refresh, pipe, gets_sent, replies,
                   set_log, n_update,
                   pagination_vars, resolver_vars, startup_vars, render_vars>>

\* `Err(err) => { error!("{err}"); return; }`: where the timer goes on.
AfterSendErr_KeepsTicking == "run"

AfterSendErr == "returned"

\* timer_actor: the send of the next tick, or one suspended on a full channel,
\* fails; the timer returns and its Sender is dropped with it.
TimerSendFails ==
    /\ timer_pc = "run"
    /\ ~ReceiverAlive
    /\ "timer" \in senders
    /\ timer_pc' = AfterSendErr
    /\ senders' = IF AfterSendErr = "returned" THEN senders \ {"timer"} ELSE senders
    /\ UNCHANGED <<actor_vars, pagination_vars, resolver_vars, env, render_vars>>

\* A reader (the HTTP handler) sends Get with a fresh oneshot channel.
ReaderSend ==
    /\ ReceiverAlive
    /\ "reader" \in senders
    /\ gets_sent < MaxGets
    /\ Len(mailbox) < MailboxCap
    /\ mailbox' = Append(mailbox, MsgGet(gets_sent + 1))
    /\ gets_sent' = gets_sent + 1
    /\ UNCHANGED <<state, actor_pc, config, gitlab, refresh, pipe, timer_sent, replies,
                   set_log, n_update,
                   pagination_vars, resolver_vars, startup_vars, render_vars>>

\* ---------------------------------------------------------------- get_gitlab_data
\* `max_concurrent_requests >> 1`, the chunk size handed to both chunked pipelines.
ChunkSize_NotHalved == config.max_concurrent_requests

ChunkSize == config.max_concurrent_requests \div 2

Chunked == {"projects", "groups"}

Kind(p) == CASE p = "projects" -> "project" [] p = "groups" -> "group" [] OTHER -> "user"

\* The entities `get_all` lists for a chunked pipeline.
Listing(p) == IF p = "projects" THEN gitlab.projects ELSE gitlab.groups

\* The pipelines get_gitlab_data puts into its JoinSet.
Spawned == IF config.skip_users_tokens THEN Chunked ELSE Pipelines

\* A pipeline task that has returned or panicked: what join_next can hand out.
Completed(c, p) == pipe[c][p].pc \in {"ok", "err", "panic"}

\* `requests`, `is_admin` and `failed` are history of the users pipeline: the
\* requests it has sent, what `current_user.is_admin` was, and the request that
\* failed.
IdlePipe ==
    [pc |-> "none", res |-> <<>>, start |-> 0, task |-> <<>>, cause |-> "",
     requests |-> <<>>, is_admin |-> "unknown", failed |-> ""]

IdleRefresh ==
    [pc |-> "idle", tokens |-> FALSE, return_value |-> <<>>, joined |-> {},
     msg |-> MsgUpdate, nsent |-> 0]

\* The rendered blocks of one entity's tokens, as its task returns them.
TaskOutputOf(tokens, c, p, e) == IF tokens THEN <<Block(Kind(p), e, c)>> ELSE <<>>

TaskOutput(c, p, e) == TaskOutputOf(refresh[c].tokens, c, p, e)

\* The error a pipeline returns is told apart by the pipeline it comes from.
\* `format!("Failed to get tokens: {err}")` and `format!("Failed to join a task: {err}")`
SetErrGet(cause) == MsgSet(Err(ErrText("Failed to get tokens", cause)))
SetErrJoin == MsgSet(Err(ErrText("Failed to join a task", "panic")))
SetOk(return_value) == MsgSet(Ok(return_value))

\* Dropping a JoinSet aborts the tasks in it that have not finished; a dropped
\* pipeline drops the JoinSet of its chunk in turn.
AbortTasks(task) ==
    [i \in DOMAIN task |-> IF task[i] = "run" THEN "aborted" ELSE task[i]]

AbortPipe(pr) ==
    IF pr.pc \in {"none", "ok", "err", "panic", "aborted"}
    THEN pr
    ELSE [pr EXCEPT !.pc = "aborted", !.task = AbortTasks(pr.task)]

\* The first poll of the spawned task: the set.spawn calls up to the first join_next.
\* The data GitLab serves during this refresh (tokens or none) is an input.
RefreshStart(c) ==
    /\ refresh[c].pc = "spawned"
    /\ \E tokens \in BOOLEAN :
          refresh' = [refresh EXCEPT ![c].pc = "join", ![c].tokens = tokens]
    /\ pipe' = [pipe EXCEPT ![c] =
          [p \in Pipelines |->
              IF p \in Chunked THEN [IdlePipe EXCEPT !.pc = "list"]
              ELSE IF p \in Spawned
              THEN [IdlePipe EXCEPT !.pc = "whoami", !.requests = <<"whoami">>]
              ELSE IdlePipe]]
    /\ UNCHANGED <<state, actor_pc, mailbox, config, gitlab, timer_sent, gets_sent,
                   replies, set_log, n_update,
                   pagination_vars, resolver_vars, startup_vars, render_vars>>

\* One turn of `while let Some(join_result) = set.join_next().await`, for the
\* completed pipeline p: the refresh record after it.
JoinedAll(c, p) == refresh[c].joined \cup {p} = Spawned

RefreshAfterJoin_EarlyOk(c, p) ==
    LET r == refresh[c]
        pr == pipe[c][p]
    IN  CASE pr.pc = "ok" ->
               [r EXCEPT !.return_value = @ \o pr.res, !.joined = @ \cup {p},
                         !.msg = SetOk(r.return_value \o pr.res), !.pc = "send"]
          [] pr.pc = "err" ->
               [r EXCEPT !.joined = @ \cup {p}, !.msg = SetErrGet(pr.cause), !.pc = "send"]
          [] OTHER -> [r EXCEPT !.joined = @ \cup {p}, !.msg = SetErrJoin, !.pc = "send"]

RefreshAfterJoin(c, p) ==
    LET r == refresh[c]
        pr == pipe[c][p]
    IN  CASE pr.pc = "ok" ->
               IF JoinedAll(c, p)
               THEN [r EXCEPT !.return_value = @ \o pr.res, !.joined = @ \cup {p},
                              !.msg = SetOk(r.return_value \o pr.res), !.pc = "send"]
               ELSE [r EXCEPT !.return_value = @ \o pr.res, !.joined = @ \cup {p}]
          [] pr.pc = "err" ->
               [r EXCEPT !.joined = @ \cup {p}, !.msg = SetErrGet(pr.cause), !.pc = "send"]
          [] OTHER -> [r EXCEPT !.joined = @ \cup {p}, !.msg = SetErrJoin, !.pc = "send"]

RefreshJoin(c, p) ==
    /\ refresh[c].pc = "join"
    /\ p \in Spawned \ refresh[c].joined
    /\ Completed(c, p)
    /\ refresh' = [refresh EXCEPT ![c] = RefreshAfterJoin(c, p)]
    /\ UNCHANGED <<state, actor_pc, mailbox, config, gitlab, pipe, timer_sent,
                   gets_sent, replies, set_log, n_update,
                   pagination_vars, resolver_vars, startup_vars, render_vars>>

\* Where get_gitlab_data goes once send_msg has returned: it returns (after the
\* Err sends by `return;`, after the Ok send by reaching the end of the function).
AfterSend_KeepsJoining(c) ==
    IF ~refresh[c].msg.data.ok /\ Spawned \ refresh[c].joined # {} THEN "join" ELSE "done"

AfterSend(c) == "done"

\* What becomes of the pipelines when get_gitlab_data is at `pc` after its send:
\* on return `set` is dropped.
PipesAfterSend_NoAbort(c, pc) == pipe[c]

PipesAfterSend(c, pc) ==
    IF pc = "done" THEN [p \in Pipelines |-> AbortPipe(pipe[c][p])] ELSE pipe[c]

\* send_msg: `sender.send(msg).await`, suspended while the channel is full.
RefreshSend(c) ==
    /\ refresh[c].pc = "send"
    /\ Len(mailbox) < MailboxCap
    /\ mailbox' = Append(mailbox, refresh[c].msg)
    /\ refresh' = [refresh EXCEPT ![c].pc = AfterSend(c), ![c].nsent = @ + 1]
    /\ pipe' = [pipe EXCEPT ![c] = PipesAfterSend(c, AfterSend(c))]
    /\ UNCHANGED <<state, actor_pc, config, gitlab, timer_sent, gets_sent, replies,
                   set_log, n_update,
                   pagination_vars, resolver_vars, startup_vars, render_vars>>

\* ---------------------------------------------------------------- chunked pipelines
\* get_projects_tokens_metrics and get_groups_tokens_metrics: the same code but
\* for the URLs and the task they spawn.

\* The indexes of the chunk that starts at `start`: `chunks(n)` cuts the listing
\* into runs of n, the last one shorter.
ChunkOf(p, start) == start..Min(start + ChunkSize - 1, Len(Listing(p)))

\* One JoinSet per chunk, one spawned task per entity of the chunk.
SpawnChunk(p, task, start) ==
    [i \in DOMAIN task |-> IF i \in ChunkOf(p, start) THEN "run" ELSE task[i]]

\* `get_all(..).await?` returns, then the `for chunk in ..chunks(n)` loop runs up
\* to its first join_next. `chunks(0)` panics; an empty listing has no chunk.
PipeAfterListing(p, pr) ==
    IF ChunkSize = 0 THEN [pr EXCEPT !.pc = "panic"]
    ELSE IF Listing(p) = <<>> THEN [pr EXCEPT !.pc = "ok"]
    ELSE [pr EXCEPT !.pc = "chunk", !.start = 1,
                    !.task = SpawnChunk(p, [i \in 1..Len(Listing(p)) |-> "unspawned"], 1)]

PipeListed(c, p) ==
    /\ p \in Chunked
    /\ pipe[c][p].pc = "list"
    /\ \/ pipe' = [pipe EXCEPT ![c][p] = PipeAfterListing(p, pipe[c][p])]
       \/ pipe' = [pipe EXCEPT ![c][p].pc = "err", ![c][p].cause = p]
    /\ UNCHANGED <<state, actor_pc, mailbox, config, gitlab, refresh, timer_sent,
                   gets_sent, replies, set_log, n_update,
                   pagination_vars, resolver_vars, startup_vars, render_vars>>

\* get_project_access_tokens_task / get_group_access_tokens_task returns: its
\* token list (and, for a group, the full path) was fetched and rendered, or a
\* fetch failed.
TaskDone(c, p, i) ==
    /\ p \in Chunked
    /\ pipe[c][p].pc = "chunk"
    /\ i \in DOMAIN pipe[c][p].task
    /\ pipe[c][p].task[i] = "run"
    /\ \E r \in {"ok", "err"} : pipe' = [pipe EXCEPT ![c][p].task[i] = r]
    /\ UNCHANGED <<state, actor_pc, mailbox, config, gitlab, refresh, timer_sent,
                   gets_sent, replies, set_log, n_update,
                   pagination_vars, resolver_vars, startup_vars, render_vars>>

\* One turn of the chunk's `while let Some(join_result) = set.join_next().await`
\* for the finished task i: the pipeline record after it. After the last task of
\* a chunk the next chunk is spawned, after the last chunk the pipeline returns.
PipeAfterJoin_IgnoreTaskErr(c, p, i) ==
    LET pr == pipe[c][p]
        res == IF pr.task[i] = "ok" THEN pr.res \o TaskOutput(c, p, Listing(p)[i]) ELSE pr.res
        task == [pr.task EXCEPT ![i] = IF @ = "ok" THEN "joined" ELSE "failed"]
        next == pr.start + ChunkSize
    IN  IF \E j \in ChunkOf(p, pr.start) : task[j] \notin {"joined", "failed"}
        THEN [pr EXCEPT !.res = res, !.task = task]
        ELSE IF next > Len(Listing(p))
        THEN [pr EXCEPT !.res = res, !.task = task, !.pc = "ok"]
        ELSE [pr EXCEPT !.res = res, !.start = next, !.task = SpawnChunk(p, task, next)]

PipeAfterJoin_Prepend(c, p, i) ==
    LET pr == pipe[c][p]
        res == TaskOutput(c, p, Listing(p)[i]) \o pr.res
        task == [pr.task EXCEPT ![i] = "joined"]
        next == pr.start + ChunkSize
    IN  IF pr.task[i] = "err"
        THEN [pr EXCEPT !.pc = "err", !.cause = p,
                        !.task = AbortTasks([pr.task EXCEPT ![i] = "failed"])]
        ELSE IF \E j \in ChunkOf(p, pr.start) : task[j] # "joined"
        THEN [pr EXCEPT !.res = res, !.task = task]
        ELSE IF next > Len(Listing(p))
        THEN [pr EXCEPT !.res = res, !.task = task, !.pc = "ok"]
        ELSE [pr EXCEPT !.res = res, !.start = next, !.task = SpawnChunk(p, task, next)]

PipeAfterJoin(c, p, i) ==
    LET pr == pipe[c][p]
        res == pr.res \o TaskOutput(c, p, Listing(p)[i])
        task == [pr.task EXCEPT ![i] = "joined"]
        next == pr.start + ChunkSize
    IN  IF pr.task[i] = "err"
        THEN [pr EXCEPT !.pc = "err", !.cause = p,
                        !.task = AbortTasks([pr.task EXCEPT ![i] = "failed"])]
        ELSE IF \E j \in ChunkOf(p, pr.start) : task[j] # "joined"
        THEN [pr EXCEPT !.res = res, !.task = task]
        ELSE IF next > Len(Listing(p))
        THEN [pr EXCEPT !.res = res, !.task = task, !.pc = "ok"]
        ELSE [pr EXCEPT !.res = res, !.start = next, !.task = SpawnChunk(p, task, next)]

PipeJoin(c, p, i) ==
    /\ p \in Chunked
    /\ pipe[c][p].pc = "chunk"
    /\ i \in DOMAIN pipe[c][p].task
    /\ pipe[c][p].task[i] \in {"ok", "err"}
    /\ pipe' = [pipe EXCEPT ![c][p] = PipeAfterJoin(c, p, i)]
    /\ UNCHANGED <<state, actor_pc, mailbox, config, gitlab, refresh, timer_sent,
                   gets_sent, replies, set_log, n_update,
                   pagination_vars, resolver_vars, startup_vars, render_vars>>

\* ---------------------------------------------------------------- users pipeline
\* get_users_tokens_metrics: `user::get_current(..).await?`, then, for an
\* administrator, `User::get_all(..).await?` and
\* `PersonalAccessToken::get_all(..).await?`, each of which may fail.
UsersOutputOf(tokens, c) == IF tokens THEN <<Block("user", 1, c)>> ELSE <<>>

UsersOutput(c) == UsersOutputOf(refresh[c].tokens, c)

\* `let current_user = user::get_current(&connection).await?;` and the test of
\* `current_user.is_admin`: an administrator goes on to list the users, any
\* other account gets `Ok(String::new())`.
AfterWhoami_NonAdminFails(pr, answer) ==
    CASE answer = "admin" -> [pr EXCEPT !.pc = "users",
                                        !.requests = Append(@, "users")]
      [] OTHER -> [pr EXCEPT !.pc = "err", !.cause = "users"]

AfterWhoami(pr, answer) ==
    CASE answer = "admin" -> [pr EXCEPT !.pc = "users",
                                        !.requests = Append(@, "users")]
      [] answer = "user" -> [pr EXCEPT !.pc = "ok"]
      [] OTHER -> [pr EXCEPT !.pc = "err", !.cause = "users"]

UsersWhoami(c) ==
    /\ pipe[c]["users"].pc = "whoami"
    /\ \E answer \in {"admin", "user", "error"} :
          pipe' = [pipe EXCEPT ![c]["users"] =
              [AfterWhoami(@, answer) EXCEPT
                  !.is_admin = CASE answer = "admin" -> "yes"
                                 [] answer = "user" -> "no"
                                 [] OTHER -> "unknown",
                  !.failed = IF answer = "error" THEN "whoami" ELSE ""]]
    /\ UNCHANGED <<state, actor_pc, mailbox, config, gitlab, refresh, timer_sent,
                   gets_sent, replies, set_log, n_update,
                   pagination_vars, resolver_vars, startup_vars, render_vars>>

\* `let users = User::get_all(&connection, url).await?;`
AfterUsersListed_SoftError(pr, ok) ==
    IF ok THEN [pr EXCEPT !.pc = "pats", !.requests = Append(@, "pats")]
    ELSE [pr EXCEPT !.pc = "ok"]

AfterUsersListed(pr, ok) ==
    IF ok THEN [pr EXCEPT !.pc = "pats", !.requests = Append(@, "pats")]
    ELSE [pr EXCEPT !.pc = "err", !.cause = "users"]

UsersListed(c) ==
    /\ pipe[c]["users"].pc = "users"
    /\ \E ok \in BOOLEAN :
          pipe' = [pipe EXCEPT ![c]["users"] =
              [AfterUsersListed(@, ok) EXCEPT !.failed = IF ok THEN "" ELSE "users"]]
    /\ UNCHANGED <<state, actor_pc, mailbox, config, gitlab, refresh, timer_sent,
                   gets_sent, replies, set_log, n_update,
                   pagination_vars, resolver_vars, startup_vars, render_vars>>

\* `PersonalAccessToken::get_all(&connection, url).await?`, and the rendering
\* of the tokens that are kept.
AfterUsersTokens(pr, ok, out) ==
    IF ok THEN [pr EXCEPT !.pc = "ok", !.res = out]
    ELSE [pr EXCEPT !.pc = "err", !.cause = "users"]

UsersTokens(c) ==
    /\ pipe[c]["users"].pc = "pats"
    /\ \E ok \in BOOLEAN :
          pipe' = [pipe EXCEPT ![c]["users"] =
              [AfterUsersTokens(@, ok, UsersOutput(c)) EXCEPT
                  !.failed = IF ok THEN "" ELSE "pats"]]
    /\ UNCHANGED <<state, actor_pc, mailbox, config, gitlab, refresh, timer_sent,
                   gets_sent, replies, set_log, n_update,
                   pagination_vars, resolver_vars, startup_vars, render_vars>>

\* ---------------------------------------------------------------- a refresh as one step
\* What a pipeline can return, as the steps above produce it: the outputs of a
\* chunked pipeline are those of its chunks in order, each chunk's tasks in any
\* order of completion.
RECURSIVE Concat(_)
Concat(seqs) == IF seqs = <<>> THEN <<>> ELSE Head(seqs) \o Concat(Tail(seqs))

RECURSIVE ChunkedOutputs(_, _, _, _)
ChunkedOutputs(tokens, c, p, start) ==
    IF start > Len(Listing(p)) THEN {<<>>}
    ELSE {Concat([k \in 1..Len(order) |-> TaskOutputOf(tokens, c, p, Listing(p)[order[k]])])
             \o rest :
             order \in Perms(ChunkOf(p, start)),
             rest \in ChunkedOutputs(tokens, c, p, start + ChunkSize)}

PipeOk(res) == [pc |-> "ok", res |-> res, cause |-> ""]
PipeErr(cause) == [pc |-> "err", res |-> <<>>, cause |-> cause]
PipePanic == [pc |-> "panic", res |-> <<>>, cause |-> ""]

PipelineResults(tokens, c, p) ==
    IF p = "users"
    THEN {PipeErr(p), PipeOk(<<>>), PipeOk(UsersOutputOf(tokens, c))}
    ELSE {PipeErr(p)} \cup
         (IF ChunkSize = 0 THEN {PipePanic}
          ELSE IF Listing(p) = <<>> THEN {PipeOk(<<>>)}
          ELSE {PipeOk(res) : res \in ChunkedOutputs(tokens, c, p, 1)})

\* The join loop of get_gitlab_data over the pipelines in their order of completion.
RECURSIVE JoinLoop(_, _, _)
JoinLoop(order, results, return_value) ==
    IF order = <<>> THEN SetOk(return_value)
    ELSE LET r == results[Head(order)]
         IN  CASE r.pc = "ok" -> JoinLoop(Tail(order), results, return_value \o r.res)
               [] r.pc = "err" -> SetErrGet(r.cause)
               [] OTHER -> SetErrJoin

ResultChoices(tokens, c) ==
    {[p \in Spawned |-> CASE p = "projects" -> a [] p = "groups" -> b [] OTHER -> u] :
        a \in PipelineResults(tokens, c, "projects"),
        b \in PipelineResults(tokens, c, "groups"),
        u \in PipelineResults(tokens, c, "users")}

RefreshOutcomes(tokens, c) ==
    {JoinLoop(order, results, <<>>) :
        order \in Perms(Spawned), results \in ResultChoices(tokens, c)}

\* get_gitlab_data from its spawn to its send_msg, in one step.
RefreshRun(c) ==
    /\ refresh[c].pc = "spawned"
    /\ \E tokens \in BOOLEAN : \E msg \in RefreshOutcomes(tokens, c) :
          refresh' = [refresh EXCEPT ![c].pc = "send", ![c].tokens = tokens, ![c].msg = msg]
    /\ UNCHANGED <<state, actor_pc, mailbox, config, gitlab, pipe, timer_sent, gets_sent,
                   replies, set_log, n_update,
                   pagination_vars, resolver_vars, startup_vars, render_vars>>

\* ---------------------------------------------------------------- paginated fetch
\* OffsetBasedPagination::get_all. A URL of the endpoint is the number of the
\* page it names, None is 0. A page is served with a `link` header and a body
\* holding a JSON array of items.
LinkHeaders == {"absent", "next", "other", "unparsable"}

ItemLists == {<<>>, <<1>>, <<1, 2>>}

\* What can happen to the request of one page: it succeeds; `send()` fails; the
\* status is not a success and the body is read for the log, or cannot be read;
\* the body of a success cannot be read; the body does not decode.
PageOutcomes == {"ok", "send", "status", "status_text", "text", "decode"}

\* The error `?` / `err_copy?` returns for a failed page.
PageError(outcome) ==
    CASE outcome = "send" -> "send"
      [] outcome = "status" -> "status"
      [] outcome = "decode" -> "decode"
      [] OTHER -> "text"

\* `resp.headers().get("link") ... .and_then(|links| links.get("next") ...)`:
\* the URL of the next page when the header parses and holds rel="next".
NextUrl_AnyLink(k) == IF pages[k].link \in {"next", "other"} THEN k + 1 ELSE 0

NextUrl(k) == IF pages[k].link = "next" THEN k + 1 ELSE 0

GetAllOk(items) == [ok |-> TRUE, items |-> items, err |-> ""]

GetAllErr(err) == [ok |-> FALSE, items |-> <<>>, err |-> err]

\* The body of the response that answers the request of page k with a status
\* that is no success.
ResponseBody(k) == <<"body", k>>

ErrorBody_Carried(outcome, k) == IF outcome = "status" THEN ResponseBody(k) ELSE <<>>

\* What the returned error holds of a response body: `err_copy` is the error of
\* error_for_status_ref, made from the status and the URL before the body is read.
ErrorBody(outcome, k) == <<>>

\* `error!("{} - {} : {}", current_url, err.status().unwrap_or_default(), resp.text().await?)`
Logged(outcome, k) == IF outcome = "status" THEN <<ResponseBody(k)>> ELSE <<>>

IdleGetAll ==
    [pc |-> "idle", url |-> 0, next_url |-> 0, result |-> <<>>, requested |-> <<>>,
     ret |-> GetAllErr(""), err_body |-> <<>>, log |-> <<>>]

\* `let mut result = Vec::new(); let mut next_url = Some(url);`
GetAllCall(url) ==
    /\ get_all.pc = "idle"
    /\ url \in 1..Len(pages)
    /\ get_all' = [get_all EXCEPT !.pc = "loop", !.url = url, !.next_url = url]
    /\ UNCHANGED <<actor_vars, pages, resolver_vars, startup_vars, render_vars>>

\* One turn of `while let Some(ref current_url) = next_url`, and the return
\* that follows the last turn.
AfterPage_ReturnsPartial(g, outcome) ==
    LET k == g.next_url
        requested == Append(g.requested, [page |-> k, outcome |-> outcome])
        result == g.result \o pages[k].items
    IN  IF outcome # "ok"
        THEN [g EXCEPT !.pc = "returned", !.requested = requested,
                       !.ret = GetAllOk(g.result)]
        ELSE IF NextUrl(k) = 0
        THEN [g EXCEPT !.pc = "returned", !.requested = requested, !.next_url = 0,
                       !.result = result, !.ret = GetAllOk(result)]
        ELSE [g EXCEPT !.requested = requested, !.next_url = NextUrl(k),
                       !.result = result]

AfterPage(g, outcome) ==
    LET k == g.next_url
        requested == Append(g.requested, [page |-> k, outcome |-> outcome])
        result == g.result \o pages[k].items
    IN  IF outcome \in {"send", "status", "status_text"}
        THEN [g EXCEPT !.pc = "returned", !.requested = requested,
                       !.ret = GetAllErr(PageError(outcome)),
                       !.err_body = ErrorBody(outcome, k),
                       !.log = @ \o Logged(outcome, k)]
        ELSE IF outcome \in {"text", "decode"}
        THEN [g EXCEPT !.pc = "returned", !.requested = requested,
                       !.next_url = NextUrl(k), !.ret = GetAllErr(PageError(outcome))]
        ELSE IF NextUrl(k) = 0
        THEN [g EXCEPT !.pc = "returned", !.requested = requested, !.next_url = 0,
                       !.result = result, !.ret = GetAllOk(result)]
        ELSE [g EXCEPT !.requested = requested, !.next_url = NextUrl(k),
                       !.result = result]

GetAllPage ==
    /\ get_all.pc = "loop"
    /\ get_all.next_url # 0
    /\ \E outcome \in PageOutcomes : get_all' = AfterPage(get_all, outcome)
    /\ UNCHANGED <<actor_vars, pages, resolver_vars, startup_vars, render_vars>>

\* ---------------------------------------------------------------- group full path
\* group::get_full_path and the cache get_groups_tokens_metrics creates for it.
\* A group id is a number from 1, `parent_id: None` is 0, a path is the sequence
\* of its segments: `format!("{}/{res}", tmp_group.path)` puts one in front.
GroupIds == 1..NumGroups
Calls == 1..NumCalls
Runs == 1..MaxRuns

NoGroup == [id |-> 0, parent_id |-> 0, path |-> 0]

\* A vacant entry of the HashMap, and an occupied one: the Group stored, and
\* (history) the call whose insert stored it.
NoEntry == [group |-> NoGroup, by |-> 0]

EmptyCache == [id \in GroupIds |-> NoEntry]

\* `cache.lock().unwrap().entry(id)`: Occupied or Vacant.
Entry_AlwaysVacant(cache, id) == NoEntry

Entry(cache, id) == cache[id]

\* `.entry(g.id).or_insert_with(|| g.clone())`: the map afterwards.
OrInsert_UnderParent(cache, g, call) ==
    LET key == IF g.parent_id = 0 THEN g.id ELSE g.parent_id
    IN  IF cache[key] = NoEntry THEN [cache EXCEPT ![key] = [group |-> g, by |-> call]]
        ELSE cache

OrInsert_Overwrite(cache, g, call) == [cache EXCEPT ![g.id] = [group |-> g, by |-> call]]

OrInsert(cache, g, call) ==
    IF cache[g.id] = NoEntry THEN [cache EXCEPT ![g.id] = [group |-> g, by |-> call]]
    ELSE cache

\* `format!("{}/{res}", tmp_group.path)`
FormatPath_Behind(path, res) == res \o <<path>>

FormatPath(path, res) == <<path>> \o res

\* The holder of the cache's mutex once the statement that looked the parent up
\* is over: the guard is a temporary of the `match`, dropped at its end.
LockAfterEntry_HeldOnMiss(call, hit) == IF hit THEN 0 ELSE call

LockAfterEntry(call, hit) == 0

\* `task` is the get_group_access_tokens_task that makes the call: "run", or
\* "err" once it has returned an error. `fetched` is history: the groups the
\* call has asked of GitLab, each with whether its id was in the cache at that
\* time, and in the cache of any run before; `fetch_err` is history: GitLab's
\* answer to the last of them was an error or did not decode.
IdleCall ==
    [pc |-> "idle", group |-> 0, tmp_group |-> NoGroup, res |-> <<>>,
     fetched |-> <<>>, after |-> {}, task |-> "run", fetch_err |-> FALSE]

\* `.send().await?.error_for_status()?`, `resp.text().await?` and
\* `serde_json::from_str(..).map_err(..)?` return the error, and the `?` after
\* `get_full_path(..).await` returns it from the task.
FailedCall_PartialPath(r) == [r EXCEPT !.pc = "done"]

FailedCall(r) == [r EXCEPT !.pc = "failed", !.res = <<>>, !.task = "err"]

\* The calls that run: inside the loop or waiting for GitLab.
Running == {call \in Calls : get_full_path[call].pc \in {"loop", "fetch"}}

Finished == {call \in Calls : get_full_path[call].pc \in {"done", "failed"}}

\* get_full_path is called for a listed group: `res = group.path.clone()` and
\* the entry of the group itself (lines 53-61). A group task resolves its own
\* group only, so no two running calls resolve the same group, and none after
\* its task has returned an error. Calls are numbered in the order in which
\* they start.
ResolveCall(call, g) ==
    /\ groups_pipeline = "run"
    /\ get_full_path[call].pc = "idle"
    /\ \A other \in Calls :
          get_full_path[other].task = "err" => get_full_path[other].group # g
    /\ \A earlier \in 1..(call - 1) : get_full_path[earlier].pc # "idle"
    /\ \A other \in Running : get_full_path[other].group # g
    /\ cache_lock = 0
    /\ LET cache == OrInsert(group_id_cache, gitlab_groups[g], call)
       IN  /\ group_id_cache' = cache
           /\ get_full_path' = [get_full_path EXCEPT ![call] =
                 [pc |-> "loop", group |-> g, tmp_group |-> cache[g].group,
                  res |-> <<gitlab_groups[g].path>>, fetched |-> <<>>,
                  after |-> Finished, task |-> "run", fetch_err |-> FALSE]]
    /\ ever_cached' = ever_cached \cup {g}
    /\ UNCHANGED <<actor_vars, pagination_vars, startup_vars, render_vars, gitlab_groups, cache_lock, cache_run,
                   groups_pipeline>>

\* One test of `while let Some(parent_group_id) = tmp_group.parent_id`: the
\* function returns, or looks the parent up; a parent found is used, a parent
\* not found is asked of GitLab.
ResolveLoop(call) ==
    /\ get_full_path[call].pc = "loop"
    /\ LET r == get_full_path[call]
           parent_group_id == r.tmp_group.parent_id
           cached_group == Entry(group_id_cache, parent_group_id)
       IN  IF parent_group_id = 0
           THEN /\ get_full_path' = [get_full_path EXCEPT ![call].pc = "done"]
                /\ UNCHANGED cache_lock
           ELSE /\ cache_lock = 0
                /\ cache_lock' = LockAfterEntry(call, cached_group # NoEntry)
                /\ IF cached_group # NoEntry
                   THEN get_full_path' = [get_full_path EXCEPT
                            ![call].tmp_group = cached_group.group,
                            ![call].res = FormatPath(cached_group.group.path, r.res)]
                   ELSE get_full_path' = [get_full_path EXCEPT
                            ![call].pc = "fetch",
                            ![call].fetched = Append(r.fetched,
                                [id |-> parent_group_id,
                                 here |-> group_id_cache[parent_group_id] # NoEntry,
                                 before |-> parent_group_id \in ever_cached])]
    /\ UNCHANGED <<actor_vars, pagination_vars, startup_vars, render_vars, gitlab_groups, group_id_cache,
                   cache_run, ever_cached, groups_pipeline>>

\* GitLab's answer to `GET /api/v4/groups/{parent_group_id}` arrives: an error
\* returns; a group is stored unless its id is there, and the stored one is used.
ResolveFetched(call) ==
    /\ get_full_path[call].pc = "fetch"
    /\ LET r == get_full_path[call]
           group_from_gitlab == gitlab_groups[r.tmp_group.parent_id]
           cache == OrInsert(group_id_cache, group_from_gitlab, call)
           tmp_group == cache[group_from_gitlab.id].group
       IN  \/ /\ get_full_path' = [get_full_path EXCEPT
                    ![call] = [FailedCall(r) EXCEPT !.fetch_err = TRUE]]
              /\ UNCHANGED <<group_id_cache, cache_lock, ever_cached>>
           \/ /\ cache_lock \in {0, call}
              /\ cache_lock' = 0
              /\ group_id_cache' = cache
              /\ ever_cached' = ever_cached \cup {group_from_gitlab.id}
              /\ get_full_path' = [get_full_path EXCEPT
                    ![call].pc = "loop",
                    ![call].tmp_group = tmp_group,
                    ![call].res = FormatPath(tmp_group.path, r.res)]
    /\ UNCHANGED <<actor_vars, pagination_vars, startup_vars, render_vars, gitlab_groups, cache_run,
                   groups_pipeline>>

\* get_groups_tokens_metrics joins its tasks: `Err(err) => return Err(err)` at
\* the first task that returned an error, which drops the JoinSet and with it
\* the tasks still running; Ok(res) once every task has returned.
GroupsPipelineJoin ==
    /\ groups_pipeline = "run"
    /\ IF \E call \in Calls : get_full_path[call].task = "err"
       THEN /\ groups_pipeline' = "err"
            /\ get_full_path' = [call \in Calls |->
                  IF call \in Running THEN [get_full_path[call] EXCEPT !.pc = "aborted"]
                  ELSE get_full_path[call]]
            /\ cache_lock' = 0
       ELSE /\ \A call \in Calls : get_full_path[call].pc = "done"
            /\ groups_pipeline' = "ok"
            /\ UNCHANGED <<get_full_path, cache_lock>>
    /\ UNCHANGED <<actor_vars, pagination_vars, startup_vars, render_vars, gitlab_groups, group_id_cache, cache_run,
                   ever_cached>>

\* The groups pipeline of the next refresh starts once this one has returned:
\* `let group_id_cache = Arc::new(Mutex::new(HashMap::new()))`.
NewRun_SharedCache ==
    /\ cache_run < MaxRuns
    /\ groups_pipeline # "run"
    /\ cache_run' = cache_run + 1
    /\ get_full_path' = [call \in Calls |-> IdleCall]
    /\ cache_lock' = 0
    /\ groups_pipeline' = "run"
    /\ UNCHANGED <<actor_vars, pagination_vars, startup_vars, render_vars, gitlab_groups, group_id_cache,
                   ever_cached>>

NewRun ==
    /\ cache_run < MaxRuns
    /\ groups_pipeline # "run"
    /\ cache_run' = cache_run + 1
    /\ group_id_cache' = EmptyCache
    /\ get_full_path' = [call \in Calls |-> IdleCall]
    /\ cache_lock' = 0
    /\ groups_pipeline' = "run"
    /\ UNCHANGED <<actor_vars, pagination_vars, startup_vars, render_vars, gitlab_groups, ever_cached>>

\* ---------------------------------------------------------------- actor: startup and exit
\* The environment gitlab_tokens_actor reads before its loop. A variable is
\* "unset" or holds a text; "set" stands for any text.
DefaultEnv ==
    [GITLAB_TOKEN |-> "set", GITLAB_HOSTNAME |-> "set", ACCEPT_INVALID_CERTS |-> "unset",
     OWNED_ENTITIES_ONLY |-> "unset", MAX_CONCURRENT_REQUESTS |-> "unset",
     SKIP_USERS_TOKENS |-> "unset", SKIP_NON_EXPIRING_TOKENS |-> "unset"]

EnvValues(name) ==
    CASE name \in {"GITLAB_TOKEN", "GITLAB_HOSTNAME"} -> {"unset", "set"}
      [] name = "MAX_CONCURRENT_REQUESTS" -> {"unset", "many", "4"}
      [] OTHER -> {"unset", "yes", "no", "true"}

\* `match env::var(..).as_deref() { Ok("yes") => true, Ok(value) => return, Err(_) => false }`
YesOnly_AcceptsNo(value) ==
    CASE value = "yes" -> [ok |-> TRUE, val |-> TRUE]
      [] value \in {"unset", "no"} -> [ok |-> TRUE, val |-> FALSE]
      [] OTHER -> [ok |-> FALSE, val |-> FALSE]

YesOnly(value) ==
    CASE value = "yes" -> [ok |-> TRUE, val |-> TRUE]
      [] value = "unset" -> [ok |-> TRUE, val |-> FALSE]
      [] OTHER -> [ok |-> FALSE, val |-> FALSE]

\* `match .. { Ok("yes") => true, Ok("no") | Err(_) => false, Ok(value) => return }`
YesOrNo(value) ==
    CASE value = "yes" -> [ok |-> TRUE, val |-> TRUE]
      [] value \in {"no", "unset"} -> [ok |-> TRUE, val |-> FALSE]
      [] OTHER -> [ok |-> FALSE, val |-> FALSE]

\* `env::var(..).ok().and_then(|value| value.parse().ok()).unwrap_or(DEFAULT)`
ParseMaxConcurrent(value) ==
    IF value = "4" THEN 4 ELSE MAX_CONCURRENT_REQUESTS_DEFAULT

\* The checks of the environment in the order of the code; `ok` is FALSE when
\* one of them returns from the actor.
ParseEnv(e) ==
    [ok |-> /\ e.GITLAB_TOKEN # "unset"
            /\ e.GITLAB_HOSTNAME # "unset"
            /\ YesOnly(e.ACCEPT_INVALID_CERTS).ok
            /\ YesOnly(e.OWNED_ENTITIES_ONLY).ok
            /\ YesOrNo(e.SKIP_USERS_TOKENS).ok
            /\ YesOrNo(e.SKIP_NON_EXPIRING_TOKENS).ok,
     config |-> [max_concurrent_requests |-> ParseMaxConcurrent(e.MAX_CONCURRENT_REQUESTS),
                 skip_users_tokens |-> YesOrNo(e.SKIP_USERS_TOKENS).val]]

\* gitlab_tokens_actor from its entry to its loop, or to its return.
ActorStart ==
    /\ actor_pc = "start"
    /\ actor_pc' = IF ParseEnv(env).ok THEN "loop" ELSE "returned"
    /\ config' = IF ParseEnv(env).ok THEN ParseEnv(env).config ELSE config
    /\ UNCHANGED <<state, mailbox, gitlab, refresh, pipe, timer_sent, gets_sent, replies,
                   set_log, n_update, pagination_vars, resolver_vars, startup_vars, render_vars>>

\* The handles of the mailbox outside the actor: the timer's and the readers'.
ExternalSenders == {"timer", "reader"}

\* The handles the refreshes hold, dropped when the tasks finish.
SpawnedSenders == {"refresh"}

\* An owner of a Sender of the mailbox drops it.
DropSender(s) ==
    /\ s \in senders
    /\ senders' = senders \ {s}
    /\ timer_pc' = IF s = "timer" THEN "dropped" ELSE timer_pc
    /\ UNCHANGED <<actor_vars, pagination_vars, resolver_vars, env, render_vars>>

\* `receiver.recv().await` is None: the channel is empty and no Sender is left.
RecvNone == actor_pc = "loop" /\ mailbox = <<>> /\ senders = {}

AfterRecvNone_WaitsOn == "loop"

\* `let Some(msg) = receiver.recv().await else { error!("recv failed"); break; };`
AfterRecvNone == "exited"

ActorRecvClosed ==
    /\ RecvNone
    /\ actor_pc' = AfterRecvNone
    /\ UNCHANGED <<state, mailbox, config, gitlab, refresh, pipe, timer_sent, gets_sent,
                   replies, set_log, n_update, pagination_vars, resolver_vars,
                   startup_vars, render_vars>>

\* ---------------------------------------------------------------- prometheus_metrics::build
\* A name, a path or a label value is a sequence of characters. The text a
\* task returns is a sequence of pieces: a "# HELP" or "# TYPE" comment, a
\* sample, or a line break. A date is a day number, NoDate is `None`.
LowerCase ==
    {"a", "b", "c", "d", "e", "f", "g", "h", "i", "j", "k", "l", "m",
     "n", "o", "p", "q", "r", "s", "t", "u", "v", "w", "x", "y", "z"}

UpperCase ==
    {"A", "B", "C", "D", "E", "F", "G", "H", "I", "J", "K", "L", "M",
     "N", "O", "P", "Q", "R", "S", "T", "U", "V", "W", "X", "Y", "Z"}

DigitChars == {"0", "1", "2", "3", "4", "5", "6", "7", "8", "9"}

\* 'a'..='z' | 'A'..='Z' | '0'..='9' | '_' | ':'
Authorized(char) == char \in LowerCase \cup UpperCase \cup DigitChars \cup {"_", ":"}

SanitizeChar_KeepsDash(char) == IF Authorized(char) \/ char = "-" THEN char ELSE "_"

\* `match char { <authorized> => char, _ => '_' }`
SanitizeChar(char) == IF Authorized(char) THEN char ELSE "_"

GitlabTokenPrefix == <<"g", "i", "t", "l", "a", "b", "_", "t", "o", "k", "e", "n", "_">>

\* format!("gitlab_token_{full_path}_{name}")
RawMetricName(full_path, name) == GitlabTokenPrefix \o full_path \o <<"_">> \o name

\* `.chars().map(..).collect()`
MetricName(full_path, name) ==
    [i \in 1..Len(RawMetricName(full_path, name)) |->
        SanitizeChar(RawMetricName(full_path, name)[i])]

DEFAULT_TOKEN_VALIDITY_DAYS == 9999

NoDate == 0

SampleValue_Elapsed(expires_at, date_now) ==
    IF expires_at # NoDate THEN date_now - expires_at ELSE DEFAULT_TOKEN_VALIDITY_DAYS

\* `(expiration_date - date_now).num_days()`, or DEFAULT_TOKEN_VALIDITY_DAYS
SampleValue(expires_at, date_now) ==
    IF expires_at # NoDate THEN expires_at - date_now ELSE DEFAULT_TOKEN_VALIDITY_DAYS

Label(key, text) == [key |-> key, text |-> text, date |-> NoDate]

DateLabel(key, date) == [key |-> key, text |-> <<>>, date |-> date]

\* Display of a bool
BoolText(b) == IF b THEN <<"t", "r", "u", "e">> ELSE <<"f", "a", "l", "s", "e">>

Comment(kind, metric_name) ==
    [kind |-> kind, name |-> metric_name, labels |-> <<>>, value |-> 0]

NewLine == [kind |-> "nl", name |-> <<>>, labels |-> <<>>, value |-> 0]

Sample(metric_name, labels, value) ==
    [kind |-> "sample", name |-> metric_name, labels |-> labels, value |-> value]

RECURSIVE ScopesLoop(_)
\* `for scope in &token.scopes { write!(res, "{scope},")?; }`
ScopesLoop(scopes) ==
    IF scopes = <<>> THEN <<>> ELSE <<Head(scopes), ",">> \o ScopesLoop(Tail(scopes))

ScopesText_TrailingComma(scopes) == Append(<<"[">> \o ScopesLoop(scopes), "]")

\* Token::scopes
ScopesText(scopes) ==
    LET res == <<"[">> \o ScopesLoop(scopes)
        popped == IF Last(res) = "," THEN SubSeq(res, 1, Len(res) - 1) ELSE res
    IN  Append(popped, "]")

AccessLabels_Always(gitlab_token) ==
    <<Label("access_level", gitlab_token.token.access_level),
      Label("web_url", gitlab_token.web_url)>>

\* `if let Some(val) = access_level { .. }` and `if let Some(val) = web_url { .. }`:
\* both are Some for Token::Group and Token::Project, None for Token::User.
AccessLabels(gitlab_token) ==
    IF gitlab_token.kind # "user"
    THEN <<Label("access_level", gitlab_token.token.access_level),
           Label("web_url", gitlab_token.web_url)>>
    ELSE <<>>

\* The sample is written with write!, the two comments with writeln!.
build(gitlab_token, date_now) ==
    LET token == gitlab_token.token
        metric_name == MetricName(gitlab_token.full_path, token.name)
        owner == <<Label(gitlab_token.kind, gitlab_token.full_path),
                   Label("token_name", token.name),
                   Label("active", BoolText(token.active)),
                   Label("revoked", BoolText(token.revoked))>>
        access == AccessLabels(gitlab_token)
        scopes == <<Label("scopes", ScopesText(token.scopes))>>
        expiry == IF token.expires_at # NoDate
                  THEN <<DateLabel("expires_at", token.expires_at)>>
                  ELSE <<>>
    IN  <<Comment("help", metric_name), NewLine,
          Comment("type", metric_name), NewLine,
          Sample(metric_name, owner \o access \o scopes \o expiry,
                 SampleValue(token.expires_at, date_now))>>

\* ---------------------------------------------------------------- token tasks
\* get_project_access_tokens_task, get_group_access_tokens_task and the token
\* part of get_users_tokens_metrics: the loop over the fetched tokens.
MaxTokens == 2           \* tokens fetched for one owner, or personal access tokens listed
MaxScopes == 3           \* scopes of a token (SpecScopes)

ProjectStr == <<"p", "r", "o", "j", "e", "c", "t">>
GroupStr == <<"g", "r", "o", "u", "p">>
BotStr == <<"_", "b", "o", "t", "_">>

HexChars == DigitChars \cup {"a", "b", "c", "d", "e", "f"}

HasAt(s, i, literal) ==
    /\ i + Len(literal) - 1 <= Len(s)
    /\ \A k \in 1..Len(literal) : s[i + k - 1] = literal[k]

HexMin == 32

\* A match of (project|group)_[0-9]+_bot_[0-9a-f]{32,} that starts at s[i].
MatchAt(s, i) ==
    \E kind \in {ProjectStr, GroupStr} :
        /\ HasAt(s, i, kind)
        /\ HasAt(s, i + Len(kind), <<"_">>)
        /\ \E digits \in 1..Len(s) :
              LET first == i + Len(kind) + 1
                  hex == first + digits + Len(BotStr)
              IN  /\ \A k \in 0..(digits - 1) :
                        first + k <= Len(s) /\ s[first + k] \in DigitChars
                  /\ HasAt(s, first + digits, BotStr)
                  /\ \A k \in 0..(HexMin - 1) :
                        hex + k <= Len(s) /\ s[hex + k] \in HexChars

\* human_users_re.is_match(&user.username): the expression is not anchored.
IsMatch(username) == \E i \in 1..Len(username) : MatchAt(username, i)

\* `user_ids`: the keys of the map collected from the users the filter keeps.
UserIds(users) ==
    {users[k].id : k \in {k \in 1..Len(users) : ~IsMatch(users[k].username)}}

\* `user_ids.get(&pat.user_id)`: collect() keeps the last pair of a key.
UsernameOf(users, id) ==
    LET kept == {k \in 1..Len(users) : users[k].id = id /\ ~IsMatch(users[k].username)}
    IN  users[CHOOSE k \in kept : \A other \in kept : other <= k].username

Skipped_WhateverConfig(skip_non_expiring_tokens, token) == token.expires_at = NoDate

\* `!(skip_non_expiring_tokens && token.expires_at.is_none())` is false
Skipped(skip_non_expiring_tokens, token) ==
    skip_non_expiring_tokens /\ token.expires_at = NoDate

IdleRenderIn ==
    [kind |-> "none", full_path |-> <<>>, web_url |-> <<>>, users |-> <<>>, tokens |-> <<>>,
     skip_non_expiring_tokens |-> FALSE, date_now |-> NoDate]

IdleRender == [pc |-> "none", tokens |-> <<>>, i |-> 1, res |-> <<>>, built |-> <<>>]

\* Token::Project / Token::Group / Token::User for the token of the loop.
TokenOf(token) ==
    [kind |-> render_in.kind,
     token |-> token,
     full_path |-> IF render_in.kind = "user"
                   THEN UsernameOf(render_in.users, token.user_id)
                   ELSE render_in.full_path,
     web_url |-> render_in.web_url]

\* `personal_access_tokens.retain(|pat| user_ids.contains_key(&pat.user_id))`
TaskFilter ==
    /\ render.pc = "filter"
    /\ render' = [render EXCEPT
          !.pc = "loop",
          !.tokens = SelectSeq(render_in.tokens,
                               LAMBDA pat : pat.user_id \in UserIds(render_in.users))]
    /\ UNCHANGED <<actor_vars, pagination_vars, resolver_vars, startup_vars, render_in>>

\* One turn of `for token in tokens { if !(skip && none) { build; push_str } }`
TaskToken ==
    /\ render.pc = "loop"
    /\ render.i <= Len(render.tokens)
    /\ LET token == render.tokens[render.i]
       IN  render' =
             IF Skipped(render_in.skip_non_expiring_tokens, token)
             THEN [render EXCEPT !.i = @ + 1]
             ELSE [render EXCEPT
                     !.i = @ + 1,
                     !.res = @ \o build(TokenOf(token), render_in.date_now),
                     !.built = Append(@, TokenOf(token))]
    /\ UNCHANGED <<actor_vars, pagination_vars, resolver_vars, startup_vars, render_in>>

\* `Ok(res)`
TaskReturn ==
    /\ render.pc = "loop"
    /\ render.i > Len(render.tokens)
    /\ render' = [render EXCEPT !.pc = "ok"]
    /\ UNCHANGED <<actor_vars, pagination_vars, resolver_vars, startup_vars, render_in>>

\* ---------------------------------------------------------------- specifications
\* MAX_CONCURRENT_REQUESTS is any u16; 1, 2 and 4 give the chunk sizes 0, 1 and 2.
MaxConcurrentValues == {1, 2, 4}

Configs == [max_concurrent_requests : MaxConcurrentValues, skip_users_tokens : BOOLEAN]

\* No paginated fetch is followed.
NoPagination ==
    /\ pages = <<>>
    /\ get_all = IdleGetAll

\* No group path is resolved.
NoResolver ==
    /\ gitlab_groups = <<>>
    /\ group_id_cache = <<>>
    /\ cache_lock = 0
    /\ get_full_path = <<>>
    /\ cache_run = 1
    /\ ever_cached = {}
    /\ groups_pipeline = "run"

\* SpecTokens follows one token task: of a project or a group with up to
\* MaxTokens fetched tokens, or of the users pipeline with two listed users and
\* up to MaxTokens personal access tokens. The day does not change during the task.
SeqsUpTo(S, n) == UNION {[1..k -> S] : k \in 0..n}

Today == {15, 16}

ExpiryDates == {NoDate, 10, 15, 45}

TokenNames ==
    {<<"T", "1">>, <<"c", "i", " ", "d", "é", "p", "l", "o", "y", "-", ":", "_">>}

AccessTokens ==
    {[name |-> name, active |-> active, revoked |-> ~active, expires_at |-> expires_at,
      access_level |-> <<"m", "a", "i", "n", "t", "a", "i", "n", "e", "r">>,
      scopes |-> <<"read_api", "api">>, user_id |-> 0] :
        name \in TokenNames, active \in BOOLEAN, expires_at \in ExpiryDates}

PersonalTokens ==
    {[name |-> <<"T", "1">>, active |-> TRUE, revoked |-> FALSE, expires_at |-> expires_at,
      access_level |-> <<>>, scopes |-> <<"api">>, user_id |-> user_id] :
        expires_at \in {NoDate, 45}, user_id \in {1, 2, 3}}

HexDigits16 ==
    <<"4", "f", "f", "c", "a", "2", "3", "3", "d", "8", "2", "9", "8", "e", "a", "1">>

\* alice; project_123_bot_4ffca233d8298ea1; the same with 32 digits; a group's
\* bot with 33 digits
Usernames ==
    {<<"a", "l", "i", "c", "e">>,
     ProjectStr \o <<"_", "1", "2", "3">> \o BotStr \o HexDigits16,
     ProjectStr \o <<"_", "1", "2", "3">> \o BotStr \o HexDigits16 \o HexDigits16,
     GroupStr \o <<"_", "7">> \o BotStr \o HexDigits16 \o HexDigits16 \o <<"0">>}

OwnerInputs ==
    {[kind |-> "project", full_path |-> <<"P">>, web_url |-> <<"h", "/", "P">>],
     [kind |-> "group", full_path |-> <<"g", "/", "s", ".", "1">>,
      web_url |-> <<"h", "/", "g">>]}

RenderInputs ==
    {[kind |-> owner.kind, full_path |-> owner.full_path, web_url |-> owner.web_url,
      users |-> <<>>, tokens |-> tokens, skip_non_expiring_tokens |-> skip,
      date_now |-> date_now] :
        owner \in OwnerInputs, tokens \in SeqsUpTo(AccessTokens, MaxTokens),
        skip \in BOOLEAN, date_now \in Today}
    \cup
    {[kind |-> "user", full_path |-> <<>>, web_url |-> <<>>,
      users |-> <<[id |-> 1, username |-> username],
                  [id |-> 2, username |-> <<"b", "o", "b">>]>>,
      tokens |-> tokens, skip_non_expiring_tokens |-> skip, date_now |-> date_now] :
        username \in Usernames, tokens \in SeqsUpTo(PersonalTokens, MaxTokens),
        skip \in BOOLEAN, date_now \in Today}

\* No token task is followed.
NoRender ==
    /\ render_in = IdleRenderIn
    /\ render = IdleRender

\* The environment was accepted and every owner keeps its Sender.
NoStartup ==
    /\ env = DefaultEnv
    /\ senders = {"timer", "reader", "actor"}
    /\ timer_pc = "run"

InitActor ==
    /\ state = InitialState
    /\ actor_pc = "loop"
    /\ mailbox = <<>>
    /\ refresh = [c \in Cycles |-> IdleRefresh]
    /\ pipe = [c \in Cycles |-> [p \in Pipelines |-> IdlePipe]]
    /\ timer_sent = 0
    /\ gets_sent = 0
    /\ replies = {}
    /\ set_log = <<>>
    /\ n_update = 0

\* Spec runs the actor with MAX_CONCURRENT_REQUESTS unset and SKIP_USERS_TOKENS=yes,
\* against a GitLab that lists one project and no group.
Init ==
    /\ InitActor
    /\ config = [max_concurrent_requests |-> MAX_CONCURRENT_REQUESTS_DEFAULT,
                 skip_users_tokens |-> TRUE]
    /\ gitlab = [projects |-> <<1>>, groups |-> <<>>]
    /\ NoPagination
    /\ NoResolver
    /\ NoStartup
    /\ NoRender

Next ==
    \/ ActorGet
    \/ ActorUpdate
    \/ ActorSet
    \/ TimerSend
    \/ ReaderSend
    \/ \E c \in Cycles : RefreshRun(c)
    \/ \E c \in Cycles : RefreshSend(c)

Spec == Init /\ [][Next]_vars

\* The timer, the actor and the refreshes it spawns, with no reader: the
\* messages of one refresh cycle after another.
NextCycles ==
    \/ ActorUpdate
    \/ ActorSet
    \/ TimerSend
    \/ \E c \in Cycles : RefreshRun(c)
    \/ \E c \in Cycles : RefreshSend(c)

SpecCycles == Init /\ [][NextCycles]_vars

\* The runtime polls every task that can run: the actor takes the message its
\* recv returns, a refresh whose requests have returned goes on to its send,
\* and a send that waits for room gets it once the channel has some (the
\* waiters of the channel are served in order).
LiveCycles ==
    /\ SpecCycles
    /\ WF_vars(ActorUpdate)
    /\ WF_vars(ActorSet)
    /\ \A c \in Cycles : WF_vars(RefreshRun(c))
    /\ \A c \in Cycles : SF_vars(RefreshSend(c))

\* SpecRefresh follows the refresh of the timer's first Update step by step.
TimerSendFirst ==
    /\ timer_sent = 0
    /\ TimerSend

InitRefresh ==
    /\ InitActor
    /\ config \in Configs
    /\ gitlab = [projects |-> [i \in 1..NumEntities |-> i],
                 groups |-> [i \in 1..NumEntities |-> i]]
    /\ NoPagination
    /\ NoResolver
    /\ NoStartup
    /\ NoRender

NextRefresh ==
    \/ ActorUpdate
    \/ ActorSet
    \/ TimerSendFirst
    \/ \E c \in Cycles : RefreshStart(c)
    \/ \E c \in Cycles, p \in Chunked : PipeListed(c, p)
    \/ \E c \in Cycles, p \in Chunked, i \in 1..NumEntities : TaskDone(c, p, i)
    \/ \E c \in Cycles, p \in Chunked, i \in 1..NumEntities : PipeJoin(c, p, i)
    \/ \E c \in Cycles : UsersWhoami(c)
    \/ \E c \in Cycles : UsersListed(c)
    \/ \E c \in Cycles : UsersTokens(c)
    \/ \E c \in Cycles, p \in Pipelines : RefreshJoin(c, p)
    \/ \E c \in Cycles : RefreshSend(c)

SpecRefresh == InitRefresh /\ [][NextRefresh]_vars

\* SpecPages follows one call of get_all against an endpoint of up to MaxPages
\* pages, the last of which carries no rel="next" link.
InitPages ==
    /\ InitActor
    /\ config = [max_concurrent_requests |-> MAX_CONCURRENT_REQUESTS_DEFAULT,
                 skip_users_tokens |-> TRUE]
    /\ gitlab = [projects |-> <<>>, groups |-> <<>>]
    /\ \E n \in 1..MaxPages :
          pages \in {ps \in [1..n -> [link : LinkHeaders, items : ItemLists]] :
                        ps[n].link # "next"}
    /\ get_all = IdleGetAll
    /\ NoResolver
    /\ NoStartup
    /\ NoRender

NextPages ==
    \/ \E url \in 1..MaxPages : GetAllCall(url)
    \/ GetAllPage

SpecPages == InitPages /\ [][NextPages]_vars

\* SpecGroups follows the calls of get_full_path of the groups pipeline, run
\* after run, against every forest of NumGroups groups (a parent has the
\* smaller id).
InitResolver ==
    /\ gitlab_groups \in
          {[id \in GroupIds |-> [id |-> id, parent_id |-> parent[id], path |-> id]] :
              parent \in {f \in [GroupIds -> 0..NumGroups] : \A id \in GroupIds : f[id] < id}}
    /\ group_id_cache = EmptyCache
    /\ cache_lock = 0
    /\ get_full_path = [call \in Calls |-> IdleCall]
    /\ cache_run = 1
    /\ ever_cached = {}
    /\ groups_pipeline = "run"

InitGroups ==
    /\ InitActor
    /\ config = [max_concurrent_requests |-> MAX_CONCURRENT_REQUESTS_DEFAULT,
                 skip_users_tokens |-> TRUE]
    /\ gitlab = [projects |-> <<>>, groups |-> <<>>]
    /\ NoPagination
    /\ InitResolver
    /\ NoStartup
    /\ NoRender

NextGroups ==
    \/ \E call \in Calls, g \in GroupIds : ResolveCall(call, g)
    \/ \E call \in Calls : ResolveLoop(call)
    \/ \E call \in Calls : ResolveFetched(call)
    \/ GroupsPipelineJoin
    \/ NewRun

SpecGroups == InitGroups /\ [][NextGroups]_vars

\* SpecStartup follows gitlab_tokens_actor from its entry: with the default
\* environment or one variable changed, and with a `sender` that is a handle
\* of its own mailbox or of another channel. The refreshes it spawns are not
\* followed.
Envs ==
    UNION {{[DefaultEnv EXCEPT ![name] = value] : value \in EnvValues(name)} :
              name \in DOMAIN DefaultEnv}

InitStartup ==
    /\ state = InitialState
    /\ actor_pc = "start"
    /\ mailbox = <<>>
    /\ refresh = [c \in Cycles |-> IdleRefresh]
    /\ pipe = [c \in Cycles |-> [p \in Pipelines |-> IdlePipe]]
    /\ timer_sent = 0
    /\ gets_sent = 0
    /\ replies = {}
    /\ set_log = <<>>
    /\ n_update = 0
    /\ config = [max_concurrent_requests |-> MAX_CONCURRENT_REQUESTS_DEFAULT,
                 skip_users_tokens |-> FALSE]
    /\ gitlab = [projects |-> <<>>, groups |-> <<>>]
    /\ NoPagination
    /\ NoResolver
    /\ NoRender
    /\ env \in Envs
    /\ senders \in {ExternalSenders, ExternalSenders \cup {"actor"}}
    /\ timer_pc = "run"

NextStartup ==
    \/ ActorStart
    \/ ActorGet
    \/ ActorUpdate
    \/ ActorRecvClosed
    \/ TimerSend
    \/ TimerSendFails
    \/ ReaderSend
    \/ \E s \in ExternalSenders \cup SpawnedSenders : DropSender(s)

SpecStartup == InitStartup /\ [][NextStartup]_vars

\* The runtime polls the actor's task: a `recv` that can return does return.
\* The timer's interval elapses, and a send into a closed channel returns.
LiveStartup == SpecStartup /\ WF_vars(ActorRecvClosed) /\ WF_vars(TimerSendFails)

\* SpecTokens: see RenderInputs.
\* SpecScopes follows the task of one token whose scopes are any list of up to
\* MaxScopes scope names.
ScopeNames == {"api", "read_api", "self_rotate"}

InitScopes ==
    /\ InitActor
    /\ config = [max_concurrent_requests |-> MAX_CONCURRENT_REQUESTS_DEFAULT,
                 skip_users_tokens |-> FALSE]
    /\ gitlab = [projects |-> <<>>, groups |-> <<>>]
    /\ NoPagination
    /\ NoResolver
    /\ NoStartup
    /\ \E scopes \in SeqsUpTo(ScopeNames, MaxScopes) :
          render_in \in
            {[kind |-> owner.kind, full_path |-> owner.full_path, web_url |-> owner.web_url,
              users |-> <<>>, skip_non_expiring_tokens |-> FALSE, date_now |-> 15,
              tokens |-> <<[token EXCEPT !.scopes = scopes]>>] :
                owner \in OwnerInputs, token \in {t \in AccessTokens : t.expires_at = 45}}
            \cup
            {[kind |-> "user", full_path |-> <<>>, web_url |-> <<>>,
              users |-> <<[id |-> 1, username |-> <<"b", "o", "b">>]>>,
              skip_non_expiring_tokens |-> FALSE, date_now |-> 15,
              tokens |-> <<[token EXCEPT !.scopes = scopes]>>] :
                token \in {t \in PersonalTokens : t.user_id = 1}}
    /\ render = [IdleRender EXCEPT
                   !.pc = IF render_in.kind = "user" THEN "filter" ELSE "loop",
                   !.tokens = IF render_in.kind = "user" THEN <<>> ELSE render_in.tokens]

InitTokens ==
    /\ InitActor
    /\ config = [max_concurrent_requests |-> MAX_CONCURRENT_REQUESTS_DEFAULT,
                 skip_users_tokens |-> FALSE]
    /\ gitlab = [projects |-> <<>>, groups |-> <<>>]
    /\ NoPagination
    /\ NoResolver
    /\ NoStartup
    /\ render_in \in RenderInputs
    /\ render = [IdleRender EXCEPT
                   !.pc = IF render_in.kind = "user" THEN "filter" ELSE "loop",
                   !.tokens = IF render_in.kind = "user" THEN <<>> ELSE render_in.tokens]

NextTokens ==
    \/ TaskFilter
    \/ TaskToken
    \/ TaskReturn

SpecTokens == InitTokens /\ [][NextTokens]_vars

SpecScopes == InitScopes /\ [][NextTokens]_vars

\* ---------------------------------------------------------------- the group task and its paths
\* SpecGroupTask follows get_group_access_tokens_task for one group of a forest:
\* the token loop of lines 256-266 with the call of get_full_path it makes for
\* every token it renders. The segments of a path are joined with '/'.
SegmentChars == <<"a", "b", "c", "d", "e", "f">>

RECURSIVE PathText(_)
PathText(res) ==
    IF res = <<>> THEN <<>>
    ELSE IF Len(res) = 1 THEN <<SegmentChars[res[1]]>>
    ELSE <<SegmentChars[res[1]], "/">> \o PathText(Tail(res))

\* The call of get_full_path the task makes next; its calls so far are those
\* of the tokens it has built.
TaskCall == Len(render.built) + 1

\* The token test of line 257 with the test's outcome: whether the task goes
\* on to resolve the path of its group.
CallsFullPath_OnEveryToken(skip_non_expiring_tokens, token) == TRUE

CallsFullPath(skip_non_expiring_tokens, token) ==
    ~Skipped(skip_non_expiring_tokens, token)

\* `for group_token in group_tokens { if !(..) {`: a skipped token is passed
\* over, any other makes the task call get_full_path.
GroupTaskToken ==
    /\ render.pc = "loop"
    /\ render.i <= Len(render.tokens)
    /\ render' = IF CallsFullPath(render_in.skip_non_expiring_tokens, render.tokens[render.i])
                 THEN [render EXCEPT !.pc = "path"]
                 ELSE [render EXCEPT !.i = @ + 1]
    /\ UNCHANGED <<actor_vars, pagination_vars, resolver_vars, startup_vars, render_in>>

\* `group::get_full_path(&connection, &group, &group_id_cache)` is entered.
GroupTaskCall(call) ==
    /\ render.pc = "path"
    /\ call = TaskCall
    /\ ResolveCall(call, render_in.group)

\* `.await?` returns the path: Token::Group, build, push_str.
GroupTaskBuild ==
    /\ render.pc = "path"
    /\ TaskCall \in Calls
    /\ get_full_path[TaskCall].pc = "done"
    /\ LET token == [kind |-> "group", token |-> render.tokens[render.i],
                     full_path |-> PathText(get_full_path[TaskCall].res),
                     web_url |-> render_in.web_url]
       IN  render' = [render EXCEPT
                        !.pc = "loop",
                        !.i = @ + 1,
                        !.res = @ \o build(token, render_in.date_now),
                        !.built = Append(@, token)]
    /\ UNCHANGED <<actor_vars, pagination_vars, resolver_vars, startup_vars, render_in>>

\* `.await?` returns the error of get_full_path from the task.
GroupTaskFails ==
    /\ render.pc = "path"
    /\ TaskCall \in Calls
    /\ get_full_path[TaskCall].pc = "failed"
    /\ render' = [render EXCEPT !.pc = "err", !.res = <<>>]
    /\ UNCHANGED <<actor_vars, pagination_vars, resolver_vars, startup_vars, render_in>>

\* Tokens with and without an expiry date.
GroupTaskTokens == {t \in AccessTokens : t.name = <<"T", "1">> /\ t.active /\ t.expires_at \in {NoDate, 45}}

InitGroupTask ==
    /\ InitActor
    /\ config = [max_concurrent_requests |-> MAX_CONCURRENT_REQUESTS_DEFAULT,
                 skip_users_tokens |-> TRUE]
    /\ gitlab = [projects |-> <<>>, groups |-> <<>>]
    /\ NoPagination
    /\ InitResolver
    /\ NoStartup
    /\ \E g \in GroupIds, skip \in BOOLEAN,
          tokens \in SeqsUpTo(GroupTaskTokens, Min(MaxTokens, NumCalls)) :
          /\ render_in = [kind |-> "group", group |-> g, full_path |-> <<>>,
                          web_url |-> <<"h", "/", "g">>, users |-> <<>>, tokens |-> tokens,
                          skip_non_expiring_tokens |-> skip, date_now |-> 15]
          /\ render = [IdleRender EXCEPT !.pc = "loop", !.tokens = tokens]

NextGroupTask ==
    \/ GroupTaskToken
    \/ \E call \in Calls : GroupTaskCall(call)
    \/ \E call \in Calls : ResolveLoop(call)
    \/ \E call \in Calls : ResolveFetched(call)
    \/ GroupTaskBuild
    \/ GroupTaskFails
    \/ TaskReturn

SpecGroupTask == InitGroupTask /\ [][NextGroupTask]_vars

\* The runtime polls the task, and every request to GitLab is answered.
LiveGroupTask ==
    /\ SpecGroupTask
    /\ WF_vars(GroupTaskToken)
    /\ WF_vars(GroupTaskBuild)
    /\ WF_vars(GroupTaskFails)
    /\ WF_vars(TaskReturn)
    /\ \A call \in Calls :
          WF_vars(GroupTaskCall(call)) /\ WF_vars(ResolveLoop(call)) /\ WF_vars(ResolveFetched(call))

\* Every Set a refresh sends step by step is one the one-step refresh can send.
RefreshRunCoversSteps ==
    \A c \in Cycles :
        refresh[c].pc \in {"send", "done"} => refresh[c].msg \in RefreshOutcomes(refresh[c].tokens, c)

\* ================================================================ claims
\* The state the specification gives for a Set payload.
StateFor(d) ==
    IF ~d.ok THEN [tag |-> "Error", val |-> d.val]
    ELSE IF Len(d.val) = 0 THEN [tag |-> "NoToken", val |-> <<>>]
    ELSE [tag |-> "Loaded", val |-> d.val]

\* The step in which the actor takes a message of the given type off its mailbox.
Processes(type) ==
    /\ actor_pc = "loop"
    /\ mailbox # <<>>
    /\ Head(mailbox).type = type
    /\ mailbox' = Tail(mailbox)

\* C1: processing Set(Ok(s)) gives NoToken for an empty s and Loaded(s) otherwise,
\* processing Set(Err(m)) gives Error(m), whatever the state was before.
C1_SetDeterminesState ==
    [][Processes("Set") => state' = StateFor(Head(mailbox).data)]_vars

\* A failed refresh has replaced a Loaded snapshot.
C1_Witness ==
    /\ Len(set_log) = 2
    /\ set_log[1].ok /\ set_log[1].val # <<>>
    /\ ~set_log[2].ok
    /\ state = Error(set_log[2].val)

\* C2: the actor starts in Loading, and a Get processed before the first Set is
\* answered Loading however many Updates were processed before it.
C2_LoadingBeforeFirstSet ==
    /\ set_log = <<>> => state = Loading
    /\ \A r \in replies : r.sets = 0 => r.state = Loading

\* A Get answered after two Updates and before any Set.
C2_Witness == \E r \in replies : r.sets = 0 /\ r.updates = 2

\* C3: the state changes only in the step that processes a Set; processing a Get
\* or an Update, and every step of a refresh task, leaves it as it is.
C3_OnlySetMutates ==
    [][state' # state => Processes("Set")]_vars

\* A Get and an Update were processed and the refresh has sent its Set, yet the
\* state is still the initial one: the Set is not processed yet.
C3_Witness ==
    /\ replies # {}
    /\ n_update >= 1
    /\ \E c \in Cycles : refresh[c].pc = "done"
    /\ set_log = <<>>
    /\ state = Loading

\* C4: a Get is answered with the state the last processed Set gave (Loading if
\* none), and the actor can answer it whenever it is next in the mailbox, refreshes
\* in flight or not.
C4_GetReadsLastSet ==
    /\ \A r \in replies :
          r.state = IF r.sets = 0 THEN Loading ELSE StateFor(set_log[r.sets])
    /\ (actor_pc = "loop" /\ mailbox # <<>> /\ Head(mailbox).type = "Get") => ENABLED ActorGet

\* A Get answered, while a refresh was in flight, with what an earlier Set gave.
C4_Witness == \E r \in replies : r.inflight >= 1 /\ r.sets >= 1 /\ r.state.tag = "Loaded"

\* C8: every processed Update spawns a refresh of its own, and once every Set of
\* these refreshes is processed the state is the one the Set received last gives.
Settled ==
    /\ timer_sent = n_update
    /\ \A c \in Cycles : refresh[c].pc \in {"idle", "done"}
    /\ \A i \in 1..Len(mailbox) : mailbox[i].type # "Set"

C8_UpdatesNotDeduplicated ==
    /\ Cardinality({c \in Cycles : refresh[c].pc # "idle"}) = n_update
    /\ Settled =>
          /\ Len(set_log) = n_update
          /\ set_log # <<>> => state = StateFor(Last(set_log))

\* Two refreshes ran at once and the Set of the second Update was received first:
\* the state is the one of the first Update's refresh.
C8_Witness ==
    /\ Settled
    /\ Len(set_log) = 2
    /\ set_log[1].ok /\ set_log[1].val # <<>> /\ set_log[1].val[1][4] = 2
    /\ set_log[2].ok /\ set_log[2].val # <<>> /\ set_log[2].val[1][4] = 1
    /\ state = Loaded(set_log[2].val)

\* C10: after Set(Err(m)) the actor is still in its loop, a Get is answered
\* Error(m) as long as that Set is the last one processed, and a later Set(Ok)
\* replaces the Error by NoToken or Loaded.
C10_ErrorDoesNotStopActor ==
    /\ actor_pc = "loop"
    /\ \A r \in replies :
          (r.sets >= 1 /\ ~set_log[r.sets].ok) =>
              r.state = [tag |-> "Error", val |-> set_log[r.sets].val]
    /\ (set_log # <<>> /\ Last(set_log).ok) => state.tag \in {"NoToken", "Loaded"}

\* A Get was answered Error after a failed refresh, then a second Update was
\* processed and its Set(Ok) replaced the Error.
C10_Witness ==
    /\ Len(set_log) = 2
    /\ ~set_log[1].ok
    /\ set_log[2].ok
    /\ \E r \in replies : r.sets = 1 /\ r.state.tag = "Error" /\ r.updates = 1
    /\ state.tag \in {"NoToken", "Loaded"}

\* ---------------------------------------------------------------- refresh cycle
Range(s) == {s[i] : i \in 1..Len(s)}

\* The Set messages sent and not yet processed.
SetsInMailbox == {i \in 1..Len(mailbox) : mailbox[i].type = "Set"}

\* The whole output of a pipeline of cycle c: one block for each token GitLab
\* served in that cycle, each once (the users pipeline of a non-administrator
\* has none).
WholeOutput(c, p, res) ==
    IF p = "users"
    THEN res = <<>> \/ (refresh[c].tokens /\ res = <<<<"block", "user", 1, c>>>>)
    ELSE IF refresh[c].tokens
    THEN /\ Len(res) = Len(Listing(p))
         /\ Range(res) = {<<"block", Kind(p), Listing(p)[i], c>> : i \in 1..Len(Listing(p))}
    ELSE res = <<>>

\* s is the outputs of the spawned pipelines of cycle c, whole, one after the other.
PublishedBy(s, c) ==
    /\ refresh[c].pc = "done"
    /\ \A p \in Spawned : pipe[c][p].pc = "ok" /\ WholeOutput(c, p, pipe[c][p].res)
    /\ \E order \in Perms(Spawned) :
          s = Concat([k \in 1..Len(order) |-> pipe[c][order[k]].res])

\* C5: a Loaded snapshot is the concatenation of the whole outputs of all the
\* pipelines of one refresh cycle in which every pipeline succeeded.
C5_LoadedIsOneWholeCycle ==
    state.tag = "Loaded" => \E c \in Cycles : PublishedBy(state.val, c)

\* A snapshot with the blocks of every project, of the group and of the user.
C5_Witness ==
    /\ state.tag = "Loaded"
    /\ ~config.skip_users_tokens
    /\ Len(state.val) = Len(gitlab.projects) + Len(gitlab.groups) + 1

\* A per-entity task of cycle c has returned an error.
TaskFailed(c, p) ==
    \E i \in DOMAIN pipe[c][p].task : pipe[c][p].task[i] \in {"err", "failed"}

\* C6: a pipeline with a failed per-entity task does not return Ok and returns
\* Err once it has joined that task, and a cycle
\* with a failed task, a failed pipeline or a pipeline that cannot be joined
\* sends Set(Err) and no Set(Ok).
C6_FailureFailsTheCycle ==
    \A c \in Cycles :
        /\ \A p \in Chunked : TaskFailed(c, p) => pipe[c][p].pc # "ok"
        /\ \A p \in Chunked :
              (\E i \in DOMAIN pipe[c][p].task : pipe[c][p].task[i] = "failed") =>
                  pipe[c][p].pc = "err"
        /\ (\E p \in Spawned : pipe[c][p].pc \in {"err", "panic"} \/ TaskFailed(c, p)) =>
              /\ refresh[c].pc \in {"send", "done"} => ~refresh[c].msg.data.ok
              /\ \A i \in SetsInMailbox : ~mailbox[i].data.ok
              /\ \A i \in 1..Len(set_log) : ~set_log[i].ok
        /\ (\E p \in refresh[c].joined : pipe[c][p].pc \in {"err", "panic"}) =>
              refresh[c].pc \in {"send", "done"}

\* The second project's task failed, the projects pipeline failed with it, and
\* the actor holds the error of the cycle.
C6_Witness ==
    \E c \in Cycles :
        /\ pipe[c]["projects"].pc = "err"
        /\ Len(pipe[c]["projects"].task) >= 2
        /\ pipe[c]["projects"].task[2] = "failed"
        /\ pipe[c]["groups"].pc = "ok"
        /\ refresh[c].pc = "done"
        /\ state.tag = "Error"

\* C7: a refresh cycle emits one Set: none before it has joined every pipeline
\* with success (Set(Ok)) or has joined a failed one (Set(Err)), and none after.
C7_OneSetPerCycle ==
    \A c \in Cycles :
        /\ refresh[c].nsent = IF refresh[c].pc = "done" THEN 1 ELSE 0
        /\ refresh[c].pc \in {"send", "done"} =>
              IF refresh[c].msg.data.ok
              THEN /\ refresh[c].joined = Spawned
                   /\ \A p \in Spawned : pipe[c][p].pc = "ok"
              ELSE \E p \in refresh[c].joined : pipe[c][p].pc \in {"err", "panic"}
        /\ Cardinality(SetsInMailbox) + Len(set_log) <= n_update

\* The cycle has sent its one Set(Err) though two pipelines were joined with
\* success before the failure showed.
C7_Witness ==
    \E c \in Cycles :
        /\ refresh[c].pc = "done"
        /\ refresh[c].nsent = 1
        /\ ~refresh[c].msg.data.ok
        /\ Cardinality(refresh[c].joined) = 3

InFlightTasks(c, p) ==
    {i \in DOMAIN pipe[c][p].task : pipe[c][p].task[i] \in {"run", "ok", "err"}}

\* The chunk the i-th listed entity falls into, for chunks of size n.
ChunkIndex(i, n) == (i - 1) \div n + 1

ListingOrderOutput(c, p) ==
    Concat([i \in 1..Len(Listing(p)) |-> TaskOutput(c, p, Listing(p)[i])])

\* The place in the listing of the entity a block was rendered for.
ListingIndex(p, block) == CHOOSE i \in 1..Len(Listing(p)) : Listing(p)[i] = block[3]

\* C12 as stated: the output a pipeline returns is the blocks of its entities in
\* API listing order, whatever the order in which the tasks of a chunk complete.
C12_ListingOrder ==
    \A c \in Cycles : \A p \in Chunked :
        pipe[c][p].pc = "ok" => pipe[c][p].res = ListingOrderOutput(c, p)

\* C12, amended: the output of a pipeline holds the block of every joined task
\* once, the blocks of an earlier chunk before those of a later chunk (so in
\* listing order when chunks hold one task), and a pipeline that returns its
\* output returns a permutation of the listing-order output.
C12_ChunkOrder ==
    \A c \in Cycles : \A p \in Chunked :
        LET pr == pipe[c][p]
            n  == config.max_concurrent_requests \div 2
        IN  (n >= 1 /\ pr.pc \in {"chunk", "ok"}) =>
              /\ \A k \in 1..Len(pr.res) : \A l \in 1..Len(pr.res) :
                    k < l => /\ pr.res[k] # pr.res[l]
                             /\ ChunkIndex(ListingIndex(p, pr.res[k]), n)
                                   <= ChunkIndex(ListingIndex(p, pr.res[l]), n)
              /\ Range(pr.res) =
                    UNION {Range(TaskOutput(c, p, Listing(p)[i])) :
                              i \in {j \in DOMAIN pr.task : pr.task[j] = "joined"}}
              /\ n = 1 /\ pr.pc = "ok" => pr.res = ListingOrderOutput(c, p)

\* A pipeline returned the blocks of one chunk in the order its tasks completed,
\* which is not the listing order.
C12_Witness ==
    /\ pipe[1]["projects"].pc = "ok"
    /\ Len(pipe[1]["projects"].res) >= 2
    /\ pipe[1]["projects"].res # ListingOrderOutput(1, "projects")

\* ---------------------------------------------------------------- paginated fetch: claims
\* The pages get_all has requested, in order.
RequestedPages == [i \in 1..Len(get_all.requested) |-> get_all.requested[i].page]

\* C13: when every requested page answers with success and decodes, get_all has
\* requested the page of the given URL first, then the page each rel="next" link
\* names, one after the other, up to the first page without such a link, and it
\* returns the items of exactly these pages, concatenated in order.
C13_FollowsNextLinks ==
    LET r == RequestedPages
        n == Len(r)
    IN  /\ (\A i \in 1..n : get_all.requested[i].outcome = "ok") =>
              /\ n >= 1 => r[1] = get_all.url
              /\ \A i \in 1..(n - 1) : pages[r[i]].link = "next" /\ r[i + 1] = r[i] + 1
              /\ get_all.result = Concat([i \in 1..n |-> pages[r[i]].items])
              /\ get_all.pc = "returned" <=> (n >= 1 /\ pages[r[n]].link # "next")
              /\ get_all.pc = "returned" => get_all.ret = GetAllOk(get_all.result)
        /\ (get_all.pc = "returned" /\ get_all.ret.ok) =>
              \A i \in 1..n : get_all.requested[i].outcome = "ok"

\* get_all returned the items of two pages that hold the same items, and left
\* the page after the one without a next link alone.
C13_Witness ==
    /\ get_all.pc = "returned"
    /\ get_all.ret.ok
    /\ get_all.url = 1
    /\ RequestedPages = <<1, 2>>
    /\ Len(pages) = 3
    /\ pages[2].link = "other"
    /\ pages[1].items = <<1, 2>>
    /\ get_all.ret.items = <<1, 2, 1, 2>>

\* C14: a page that answers with a non-success status, or whose body does not
\* decode (or whose request or body read fails), is the last page get_all
\* requests, and get_all returns an error that carries none of the items of the
\* earlier pages.
C14_ErrorStopsPagination ==
    \A i \in 1..Len(get_all.requested) :
        get_all.requested[i].outcome # "ok" =>
            /\ i = Len(get_all.requested)
            /\ get_all.pc = "returned"
            /\ ~get_all.ret.ok
            /\ get_all.ret.items = <<>>
            /\ get_all.ret.err = PageError(get_all.requested[i].outcome)

\* The second page of three did not decode after the first gave two items.
C14_Witness ==
    /\ get_all.pc = "returned"
    /\ Len(get_all.requested) = 2
    /\ get_all.requested[2].outcome \in {"status", "decode"}
    /\ get_all.result = <<1, 2>>
    /\ get_all.next_url = 3
    /\ ~get_all.ret.ok

\* ---------------------------------------------------------------- group full path: claims
\* The path segments from the root ancestor of a group down to the group, as
\* GitLab holds them.
RECURSIVE FullPath(_)
FullPath(g) ==
    IF gitlab_groups[g].parent_id = 0 THEN <<gitlab_groups[g].path>>
    ELSE FullPath(gitlab_groups[g].parent_id) \o <<gitlab_groups[g].path>>

\* The ids of the groups a call has asked of GitLab.
FetchedIds(call) ==
    {get_full_path[call].fetched[i].id : i \in 1..Len(get_full_path[call].fetched)}

\* C15: get_full_path returns the segments from the root ancestor down to the
\* group, each once; for a group without parent that is its own path, and no
\* group was asked of GitLab.
C15_FullPathOfChain ==
    \A call \in Calls :
        LET r == get_full_path[call]
        IN  r.pc = "done" =>
              /\ r.res = FullPath(r.group)
              /\ Cardinality(Range(r.res)) = Len(r.res)
              /\ gitlab_groups[r.group].parent_id = 0 =>
                    (r.res = <<gitlab_groups[r.group].path>> /\ r.fetched = <<>>)

\* The first call resolved the last group of the chain 1 <- 2 <- 3 with two
\* fetches.
C15_Witness ==
    /\ gitlab_groups[3].parent_id = 2
    /\ gitlab_groups[2].parent_id = 1
    /\ get_full_path[1].pc = "done"
    /\ get_full_path[1].group = 3
    /\ get_full_path[1].res = <<1, 2, 3>>
    /\ Len(get_full_path[1].fetched) = 2

\* The groups a call has asked of GitLab and was given.
FetchedOk(call) ==
    LET r == get_full_path[call]
    IN  {r.fetched[i].id :
            i \in 1..(IF r.pc \in {"fetch", "failed"} THEN Len(r.fetched) - 1
                      ELSE Len(r.fetched))}

\* C16: a call that starts after another call of the same run is over asks
\* GitLab for none of the groups that call was given; when the earlier call
\* returned a path and the later one resolves a group on that path, the later
\* call asks GitLab for nothing.
C16_NoRefetchAfterCompletion ==
    \A x \in Calls : \A y \in Calls :
        x \in get_full_path[y].after =>
            /\ FetchedIds(y) \cap FetchedOk(x) = {}
            /\ (/\ get_full_path[x].pc = "done"
                /\ gitlab_groups[get_full_path[y].group].path
                      \in Range(FullPath(get_full_path[x].group)))
                  => get_full_path[y].fetched = <<>>

\* After group 3 of the chain 1 <- 2 <- 3 was resolved with two fetches, group 2
\* was resolved with none.
C16_Witness ==
    /\ get_full_path[1].pc = "done"
    /\ get_full_path[1].group = 3
    /\ FetchedIds(1) = {1, 2}
    /\ get_full_path[2].pc = "done"
    /\ get_full_path[2].group = 2
    /\ 1 \in get_full_path[2].after
    /\ get_full_path[2].res = <<1, 2>>
    /\ get_full_path[2].fetched = <<>>

\* C17: whatever the interleaving of the calls that share the cache, a call
\* works on the record GitLab holds for the ancestor it has reached, its `res`
\* is the path from that ancestor down to its group, no segment twice, and a
\* call that returns has reached the root: it returns the full path. Two calls
\* may both have asked GitLab for the same ancestor.
C17_ConcurrentPathsCorrect ==
    \A call \in Calls :
        LET r == get_full_path[call]
            full == FullPath(r.group)
        IN  r.pc \in {"loop", "fetch", "done"} =>
              /\ r.tmp_group.id \in GroupIds
              /\ r.tmp_group = gitlab_groups[r.tmp_group.id]
              /\ Len(r.res) <= Len(full)
              /\ r.res = SubSeq(full, Len(full) - Len(r.res) + 1, Len(full))
              /\ r.res[1] = r.tmp_group.path
              /\ Cardinality(Range(r.res)) = Len(r.res)
              /\ r.pc = "done" => (r.tmp_group.parent_id = 0 /\ r.res = full)

\* Two calls that ran together both missed group 1, both asked GitLab for it,
\* and both returned the full path of their group.
C17_Witness ==
    /\ get_full_path[1].pc = "done"
    /\ get_full_path[2].pc = "done"
    /\ get_full_path[2].after = {}
    /\ get_full_path[1].group # get_full_path[2].group
    /\ 1 \in FetchedIds(1) \cap FetchedIds(2)
    /\ get_full_path[1].res = FullPath(get_full_path[1].group)
    /\ get_full_path[2].res = FullPath(get_full_path[2].group)

\* C18: a step of any call leaves every occupied entry of the cache as it is,
\* the record and the call that stored it; a call whose fetched group is already
\* stored goes on with the stored record.
C18_CacheAppendOnly ==
    [][cache_run' = cache_run =>
          /\ \A id \in GroupIds :
                group_id_cache[id] # NoEntry => group_id_cache'[id] = group_id_cache[id]
          /\ \A call \in Calls :
                (get_full_path[call].pc = "fetch" /\ get_full_path'[call].pc = "loop") =>
                    LET id == get_full_path[call].tmp_group.parent_id
                    IN  /\ group_id_cache'[id] # NoEntry
                        /\ get_full_path'[call].tmp_group = group_id_cache'[id].group]_vars

\* Two calls asked GitLab for group 1; the record of the call that was answered
\* first is the one stored, and the other call went on to return.
C18_Witness ==
    \E x \in Calls : \E y \in Calls :
        /\ x # y
        /\ 1 \in FetchedOk(x) \cap FetchedOk(y)
        /\ group_id_cache[1].by = x
        /\ get_full_path[y].pc = "done"

\* C19 as stated: once a group id has been stored in the cache, no later call
\* of the process asks GitLab for that group, the calls of later refreshes
\* included.
C19_CachedForProcess ==
    \A call \in Calls : \A i \in 1..Len(get_full_path[call].fetched) :
        ~get_full_path[call].fetched[i].before

\* C19, amended: the cache lives as long as one run of the groups pipeline. A
\* call asks GitLab for a group only when the cache of its own run does not
\* hold the id, and every id stored in that cache is an id stored before in
\* some cache; the cache of a later run starts empty.
C19_CachedForRun ==
    /\ \A call \in Calls : \A i \in 1..Len(get_full_path[call].fetched) :
          ~get_full_path[call].fetched[i].here
    /\ \A id \in GroupIds : group_id_cache[id] # NoEntry => id \in ever_cached
    /\ (cache_run > 1 /\ \A call \in Calls : get_full_path[call].pc = "idle")
          => group_id_cache = EmptyCache

\* In the second run a call asked GitLab for a group that the cache of the
\* first run held, and returned.
C19_Witness ==
    /\ cache_run = 2
    /\ \E call \in Calls :
          /\ get_full_path[call].pc = "done"
          /\ \E i \in 1..Len(get_full_path[call].fetched) :
                /\ get_full_path[call].fetched[i].before
                /\ ~get_full_path[call].fetched[i].here

\* C20: a call that waits for GitLab does not hold the mutex of the cache, and
\* while it waits every other call can take its next step on the cache.
C20_NoLockAcrossFetch ==
    \A x \in Calls :
        get_full_path[x].pc = "fetch" =>
            /\ cache_lock # x
            /\ \A y \in Calls \ {x} :
                  /\ get_full_path[y].pc = "loop" => ENABLED ResolveLoop(y)
                  /\ get_full_path[y].pc = "fetch" => cache_lock \in {0, y}
                  /\ (get_full_path[y].pc = "idle"
                      /\ \A earlier \in 1..(y - 1) : get_full_path[earlier].pc # "idle")
                        => \E g \in GroupIds : ENABLED ResolveCall(y, g)

\* While the first call waits for GitLab, the second is about to look its
\* parent up.
C20_Witness ==
    /\ get_full_path[1].pc = "fetch"
    /\ get_full_path[2].pc = "loop"
    /\ get_full_path[2].tmp_group.parent_id # 0
    /\ cache_lock = 0

\* C21: a call whose fetch of an ancestor failed has returned the error and no
\* path, has stored nothing under the id of that ancestor, and has made its
\* task return the error; the groups pipeline of the run then cannot return Ok:
\* it returns the error as soon as it joins the task.
C21_FetchFailureFailsPipeline ==
    \A call \in Calls :
        LET r == get_full_path[call]
        IN  r.fetch_err =>
              /\ r.pc = "failed"
              /\ r.res = <<>>
              /\ r.task = "err"
              /\ group_id_cache[Last(r.fetched).id].by # call
              /\ groups_pipeline # "ok"
              /\ groups_pipeline = "run" => ENABLED GroupsPipelineJoin

\* The call for group 3 of the chain 1 <- 2 <- 3 was given group 2 and not
\* group 1: group 2 is stored, group 1 is not, and the pipeline has failed.
C21_Witness ==
    /\ get_full_path[1].fetch_err
    /\ get_full_path[1].group = 3
    /\ Len(get_full_path[1].fetched) = 2
    /\ group_id_cache[2].by = 1
    /\ group_id_cache[1] = NoEntry
    /\ groups_pipeline = "err"

\* ---------------------------------------------------------------- users pipeline: claims
\* The refresh of cycle c has put a Set(Err) into its message.
SendsErr(c) == refresh[c].pc \in {"send", "done"} /\ ~refresh[c].msg.data.ok

\* C22: when the identity check answers with an account that is no
\* administrator, the users pipeline returns Ok with empty text, has sent the
\* identity request only, and a refresh that fails then fails because of the
\* projects or the groups pipeline.
C22_NonAdminIsSoft ==
    \A c \in Cycles :
        LET u == pipe[c]["users"]
        IN  u.is_admin = "no" =>
              /\ u.pc = "ok"
              /\ u.res = <<>>
              /\ u.requests = <<"whoami">>
              /\ SendsErr(c) => \E p \in Chunked : pipe[c][p].pc \in {"err", "panic"}

\* With a non-administrator token the refresh has sent the projects and groups
\* blocks as Set(Ok).
C22_Witness ==
    /\ pipe[1]["users"].is_admin = "no"
    /\ refresh[1].pc = "done"
    /\ refresh[1].msg.data.ok
    /\ Len(refresh[1].msg.data.val) >= 2

\* C23: when the identity check, the user listing or the personal access token
\* listing fails, the users pipeline returns an error, and the refresh, once it
\* has joined the users pipeline or sent its message, has a Set(Err), whatever
\* the projects and groups pipelines returned.
C23_UsersErrorsAreHard ==
    \A c \in Cycles :
        LET u == pipe[c]["users"]
        IN  u.failed # "" =>
              /\ u.pc = "err"
              /\ u.failed = Last(u.requests)
              /\ refresh[c].pc \in {"send", "done"} => SendsErr(c)
              /\ "users" \in refresh[c].joined => SendsErr(c)

\* The listing of the personal access tokens failed after the projects and the
\* groups pipelines had returned their blocks: the refresh sent Set(Err).
C23_Witness ==
    /\ pipe[1]["users"].failed = "pats"
    /\ pipe[1]["projects"].pc = "ok"
    /\ pipe[1]["groups"].pc = "ok"
    /\ pipe[1]["projects"].res # <<>>
    /\ refresh[1].joined = Pipelines
    /\ refresh[1].pc = "done"
    /\ ~refresh[1].msg.data.ok

\* ---------------------------------------------------------------- startup and exit: claims
\* C26: when the mailbox is empty and has no sender left, the actor leaves its
\* loop, and the step in which it does so changes neither the state nor the
\* refreshes spawned nor the answers given.
C26_ClosedMailboxExits ==
    /\ RecvNone ~> actor_pc = "exited"
    /\ [][RecvNone => /\ actor_pc' = "exited"
                      /\ state' = state
                      /\ refresh' = refresh
                      /\ n_update' = n_update
                      /\ replies' = replies]_vars

\* The actor has answered a Get, spawned a refresh, and left its loop after the
\* timer and the readers dropped their senders.
C26_Witness ==
    /\ actor_pc = "exited"
    /\ senders = {}
    /\ replies # {}
    /\ refresh[1].pc = "spawned"

\* The environment is one the startup code refuses.
Misconfigured ==
    \/ env.GITLAB_TOKEN = "unset"
    \/ env.GITLAB_HOSTNAME = "unset"
    \/ env.ACCEPT_INVALID_CERTS \notin {"unset", "yes"}
    \/ env.OWNED_ENTITIES_ONLY \notin {"unset", "yes"}
    \/ env.SKIP_USERS_TOKENS \notin {"unset", "yes", "no"}
    \/ env.SKIP_NON_EXPIRING_TOKENS \notin {"unset", "yes", "no"}

\* C27: with a missing or refused startup variable the actor returns from its
\* entry without entering its loop: it answers no Get, processes no Update and
\* spawns no refresh.
C27_BadConfigTerminates ==
    Misconfigured =>
        /\ actor_pc \in {"start", "returned"}
        /\ ENABLED ActorStart => actor_pc = "start"
        /\ replies = {}
        /\ n_update = 0
        /\ \A c \in Cycles : refresh[c].pc = "idle"

\* ACCEPT_INVALID_CERTS=no: the actor has returned while a Get and an Update
\* wait in the mailbox.
C27_Witness ==
    /\ env.ACCEPT_INVALID_CERTS = "no"
    /\ actor_pc = "returned"
    /\ Len(mailbox) = 2
    /\ \E i, j \in 1..Len(mailbox) : mailbox[i].type = "Get" /\ mailbox[j].type = "Update"

\* ---------------------------------------------------------------- token tasks: claims
\* The samples of a text, in order.
SamplesOf(text) == SelectSeq(text, LAMBDA piece : piece.kind = "sample")

\* A username of the form project_<id>_bot_<hex> or group_<id>_bot_<hex>.
IsBotUsername(s) ==
    \E kind \in {ProjectStr, GroupStr} : \E digits \in 1..Len(s) :
        LET first == Len(kind) + 2
            hex == first + digits + Len(BotStr)
        IN  /\ HasAt(s, 1, kind \o <<"_">>)
            /\ \A k \in 0..(digits - 1) : first + k <= Len(s) /\ s[first + k] \in DigitChars
            /\ HasAt(s, first + digits, BotStr)
            /\ hex <= Len(s)
            /\ \A k \in hex..Len(s) : s[k] \in HexChars

\* C24: every personal access token the users pipeline renders belongs to a
\* listed user whose username is no bot username, and is rendered under that
\* username.
C24_OnlyHumanTokensRendered ==
    render_in.kind = "user" =>
        \A k \in 1..Len(render.built) :
            \E u \in 1..Len(render_in.users) :
                /\ render_in.users[u].id = render.built[k].token.user_id
                /\ render_in.users[u].username = render.built[k].full_path
                /\ ~IsBotUsername(render_in.users[u].username)

\* The tokens the loop of a task goes through that the configuration keeps.
Kept ==
    {i \in 1..Len(render.tokens) :
        ~render_in.skip_non_expiring_tokens \/ render.tokens[i].expires_at # NoDate}

\* C25: in the task of a project, of a group and of the users, once the loop is
\* over: with skip-non-expiring no token without expiry date is rendered;
\* without it every token of the loop is rendered once, in order; a token with
\* an expiry date is rendered in both cases; and the text holds one sample per
\* rendered token.
C25_SkipNonExpiring ==
    render.pc = "ok" =>
        /\ render_in.skip_non_expiring_tokens =>
              \A k \in 1..Len(render.built) : render.built[k].token.expires_at # NoDate
        /\ ~render_in.skip_non_expiring_tokens =>
              /\ Len(render.built) = Len(render.tokens)
              /\ \A k \in 1..Len(render.built) : render.built[k].token = render.tokens[k]
        /\ \A i \in 1..Len(render.tokens) :
              render.tokens[i].expires_at # NoDate =>
                  \E k \in 1..Len(render.built) : render.built[k].token = render.tokens[i]
        /\ Len(render.built) = Cardinality(Kept)
        /\ Len(SamplesOf(render.res)) = Len(render.built)

\* With skip-non-expiring, of a group's two tokens the one without expiry date
\* was skipped and the other rendered.
C25_Witness ==
    /\ render.pc = "ok"
    /\ render_in.kind = "group"
    /\ render_in.skip_non_expiring_tokens
    /\ Len(render.tokens) = 2
    /\ render.tokens[1].expires_at = NoDate
    /\ render.tokens[2].expires_at # NoDate
    /\ Len(render.built) = 1

RECURSIVE LinesFrom(_, _, _)
\* str::lines: the pieces between line breaks; a last line needs no line break.
LinesFrom(text, line, done) ==
    IF text = <<>> THEN (IF line = <<>> THEN done ELSE Append(done, line))
    ELSE IF Head(text).kind = "nl" THEN LinesFrom(Tail(text), <<>>, Append(done, line))
    ELSE LinesFrom(Tail(text), Append(line, Head(text)), done)

Lines(text) == LinesFrom(text, <<>>, <<>>)

\* The lines that are one sample and nothing else.
SampleLines(text) == SelectSeq(Lines(text), LAMBDA line : Len(line) = 1 /\ line[1].kind = "sample")

\* Project P with a token that expires in 30 days and a revoked one that
\* expired 5 days ago.
TwoTokensOfP ==
    /\ render_in.kind = "project"
    /\ render_in.date_now = 15
    /\ Len(render_in.tokens) = 2
    /\ render_in.tokens[1].expires_at = 45 /\ render_in.tokens[1].active
    /\ render_in.tokens[2].expires_at = 10 /\ render_in.tokens[2].revoked

\* C28: the task of project P with these two tokens returns a text that makes
\* the state Loaded and holds exactly two sample lines, both labelled
\* project="P", with the values 30 and -5.
C28_TwoBlocksOfP ==
    (TwoTokensOfP /\ render.pc = "ok") =>
        /\ ApplySet(Loading, Ok(render.res)).tag = "Loaded"
        /\ Len(SampleLines(render.res)) = 2
        /\ \A l \in 1..Len(SampleLines(render.res)) :
              LET sample == SampleLines(render.res)[l][1]
              IN  /\ sample.labels[1].key = "project"
                  /\ sample.labels[1].text = <<"P">>
                  /\ sample.value = IF l = 1 THEN 30 ELSE -5

\* C29: the value of the sample of a token with an expiry date is the signed
\* number of days from today to that date, and the sample carries the date as
\* expires_at; the sample of a token without expiry date has the value 9999 and
\* no expires_at label.
C29_DaysToExpiry ==
    /\ Len(SamplesOf(render.res)) = Len(render.built)
    /\ \A k \in 1..Len(render.built) :
          LET sample == SamplesOf(render.res)[k]
              expires_at == render.built[k].token.expires_at
              today == render_in.date_now
              dates == {l \in 1..Len(sample.labels) : sample.labels[l].key = "expires_at"}
          IN  IF expires_at # NoDate
              THEN /\ today + sample.value = expires_at
                   /\ expires_at > today <=> sample.value > 0
                   /\ expires_at < today <=> sample.value < 0
                   /\ dates = {Len(sample.labels)}
                   /\ sample.labels[Len(sample.labels)].date = expires_at
              ELSE /\ sample.value = 9999
                   /\ dates = {}

\* A user's token without expiry date and one that expires in 29 days were
\* rendered.
C29_Witness ==
    /\ render.pc = "ok"
    /\ render_in.kind = "user"
    /\ Len(render.built) = 2
    /\ SamplesOf(render.res)[1].value = 9999
    /\ SamplesOf(render.res)[2].value = 29

\* The name a piece of the text was given, for each of the three pieces of the
\* k-th rendered token.
NamesOf(k) == {render.res[5 * (k - 1) + p].name : p \in {1, 3, 5}}

\* C30: the metric name of a rendered token has the length of
\* gitlab_token_<owner-path>_<token-name>, holds authorized characters only,
\* and differs from it exactly where that has another character, by a '_'.
C30_MetricNameSanitized ==
    /\ Len(render.res) = 5 * Len(render.built)
    /\ \A k \in 1..Len(render.built) : \A name \in NamesOf(k) :
          LET raw == RawMetricName(render.built[k].full_path, render.built[k].token.name)
          IN  /\ Len(name) = Len(raw)
              /\ \A i \in 1..Len(raw) :
                    /\ name[i] \in LowerCase \cup UpperCase \cup DigitChars \cup {"_", ":"}
                    /\ raw[i] \in LowerCase \cup UpperCase \cup DigitChars \cup {"_", ":"}
                          => name[i] = raw[i]
                    /\ name[i] # raw[i] => name[i] = "_"

\* The token "ci déploy-:_" of group g/s.1 was rendered.
C30_Witness ==
    /\ render.pc = "ok"
    /\ render_in.kind = "group"
    /\ Len(render.built) = 1
    /\ Len(render.built[1].token.name) > 2
    /\ Len(render.res[5].name) = Len(GitlabTokenPrefix) + 5 + 1 + 12


\* C31: the first label of every sample is the owner kind of its token with the
\* owner's full path as value; a sample of a project or group token has one
\* access_level and one web_url label, a sample of a user token has neither.
C31_OwnerAndAccessLabels ==
    /\ Len(SamplesOf(render.res)) = Len(render.built)
    /\ \A k \in 1..Len(render.built) :
          LET sample == SamplesOf(render.res)[k]
              token == render.built[k]
              with(key) == {l \in 1..Len(sample.labels) : sample.labels[l].key = key}
          IN  /\ token.kind \in {"project", "group", "user"}
              /\ token.kind = render_in.kind
              /\ sample.labels[1].key = token.kind
              /\ sample.labels[1].text = token.full_path
              /\ Cardinality(with("access_level")) = IF token.kind = "user" THEN 0 ELSE 1
              /\ Cardinality(with("web_url")) = IF token.kind = "user" THEN 0 ELSE 1
              /\ \A l \in with("access_level") : sample.labels[l].text = token.token.access_level
              /\ \A l \in with("web_url") : sample.labels[l].text = token.web_url

\* A token of user bob was rendered: user, token_name, active, revoked, scopes
\* and expires_at are its labels.
C31_Witness ==
    /\ render.pc = "ok"
    /\ render_in.kind = "user"
    /\ Len(render.built) = 1
    /\ render.built[1].full_path = <<"b", "o", "b">>
    /\ Len(SamplesOf(render.res)[1].labels) = 6

\* The value of the scopes label of the k-th sample.
ScopesLabel(k) ==
    LET labels == SamplesOf(render.res)[k].labels
    IN  labels[CHOOSE l \in 1..Len(labels) : labels[l].key = "scopes"].text

FailedOnStatus ==
    /\ get_all.pc = "returned"
    /\ Last(get_all.requested).outcome = "status"

\* C33 as stated: the error get_all returns for a page answered with a status
\* that is no success carries the body of that response.
C33_ErrorCarriesBody ==
    FailedOnStatus => get_all.err_body = ResponseBody(Last(get_all.requested).page)

\* C33: for a page answered with a status that is no success, get_all returns
\* the status error, which carries no response body; the body is written to
\* the log only, once, and no items are returned.
C33_BodyOnlyLogged ==
    FailedOnStatus =>
        /\ get_all.ret = GetAllErr("status")
        /\ get_all.err_body = <<>>
        /\ get_all.log = <<ResponseBody(Last(get_all.requested).page)>>

\* The second page was answered with a status that is no success.
C33_Witness ==
    /\ FailedOnStatus
    /\ Len(get_all.requested) = 2
    /\ get_all.requested[1].outcome = "ok"
    /\ get_all.log = <<ResponseBody(2)>>


\* ---------------------------------------------------------------- liveness of a refresh
\* C34: once the actor has processed n Updates it eventually has processed n
\* Sets; every refresh sends one Set and no more, and the Sets processed or
\* waiting in the mailbox are those of the refreshes that have sent.
C34_UpdateLeadsToSet ==
    /\ \A n \in 1..MaxUpdates : (n_update >= n) ~> (Len(set_log) >= n)
    /\ [](/\ \A c \in Cycles : refresh[c].nsent = IF refresh[c].pc = "done" THEN 1 ELSE 0
          /\ Len(set_log) + Cardinality(SetsInMailbox)
                = Cardinality({c \in Cycles : refresh[c].pc = "done"})
          /\ Len(set_log) <= n_update)

\* An Update has been processed and the Set of its refresh waits in a full
\* mailbox behind the next Update.
C34_Witness ==
    /\ n_update >= 1
    /\ Len(set_log) = 0
    /\ Len(mailbox) = MailboxCap
    /\ Head(mailbox).type = "Update"
    /\ SetsInMailbox # {}


ApiCallFailed(c) ==
    \E p \in Pipelines : pipe[c][p].pc = "err" \/ TaskFailed(c, p)

\* C36: for every max_concurrent_requests of at least 1 the halved chunk size
\* is at least 1, no pipeline panics, and a refresh none of whose API calls
\* failed sends Set(Ok).
C36_HalvedChunkAtLeastOne ==
    config.max_concurrent_requests >= 1 =>
        /\ ChunkSize >= 1
        /\ \A c \in Cycles :
              /\ \A p \in Chunked : pipe[c][p].pc # "panic"
              /\ (refresh[c].pc \in {"send", "done"} /\ ~ApiCallFailed(c)) =>
                    refresh[c].msg.data.ok


\* ---------------------------------------------------------------- requests in flight
\* The HTTP requests a pipeline of cycle c is waiting on: the listing request
\* of a chunked pipeline, then one request per running task of its chunk; the
\* one request the users pipeline has sent.
RequestsInFlight(c, p) ==
    LET pr == pipe[c][p]
    IN  IF p \in Chunked
        THEN CASE pr.pc = "list"  -> 1
               [] pr.pc = "chunk" -> Cardinality({i \in DOMAIN pr.task : pr.task[i] = "run"})
               [] OTHER           -> 0
        ELSE IF pr.pc \in {"whoami", "users", "pats"} THEN 1 ELSE 0

TotalInFlight(c) ==
    RequestsInFlight(c, "projects") + RequestsInFlight(c, "groups")
        + RequestsInFlight(c, "users")

\* C37: the requests in flight of one refresh cycle, summed over its three
\* pipelines, never exceed max_concurrent_requests.
C37_TotalInFlightBounded ==
    \A c \in Cycles : TotalInFlight(c) <= config.max_concurrent_requests


\* ---------------------------------------------------------------- Loading is initial only
\* C38: in every state reached after a Set has been processed the state is
\* NoToken, Loaded or Error, a state other than Loading has a processed Set
\* behind it, and no Get processed after a Set is answered with Loading.
C38_LoadingOnlyInitially ==
    /\ set_log # <<>> => state.tag \in {"NoToken", "Loaded", "Error"}
    /\ state.tag # "Loading" => set_log # <<>>
    /\ \A r \in replies : r.sets >= 1 => r.state.tag \in {"NoToken", "Loaded", "Error"}

\* A Get answered with NoToken after an empty Set(Ok) while the next refresh
\* was in flight.
C38_Witness ==
    \E r \in replies : r.sets >= 1 /\ r.inflight >= 1 /\ r.state.tag = "NoToken"


\* ---------------------------------------------------------------- get_full_path: termination and fetches
\* The ancestors of a group in GitLab's forest, and their number.
RECURSIVE Ancestors(_)
Ancestors(g) ==
    IF g = 0 \/ gitlab_groups[g].parent_id = 0 THEN {}
    ELSE {gitlab_groups[g].parent_id} \cup Ancestors(gitlab_groups[g].parent_id)

Depth(g) == Cardinality(Ancestors(g))

\* The calls of get_full_path the task has made.
CallsMade == {call \in Calls : get_full_path[call].pc # "idle"}

\* The tokens among the first n of the task that pass the test of line 257.
Rendered(n) ==
    {k \in 1..n : ~(render_in.skip_non_expiring_tokens /\ render.tokens[k].expires_at = NoDate)}

\* C39: the task and every call of get_full_path it makes come to an end; a
\* call asks GitLab for ancestors of its group only and for none twice, and
\* each turn of its loop takes it one group up the chain; the task has called
\* get_full_path once for each token it renders, so a task that renders no
\* token makes no call and asks GitLab for no group.
C39_FullPathTerminates ==
    /\ <>(render.pc \in {"ok", "err"})
    /\ \A call \in Calls :
          (get_full_path[call].pc \in {"loop", "fetch"}) ~>
              (get_full_path[call].pc \in {"done", "failed"})
    /\ [](\A call \in CallsMade :
            LET r == get_full_path[call]
            IN  /\ Cardinality(FetchedIds(call)) = Len(r.fetched)
                /\ FetchedIds(call) \subseteq Ancestors(r.group)
                /\ r.group = render_in.group
                /\ r.pc \in {"loop", "fetch"} =>
                      Len(r.res) + Depth(r.tmp_group.id) = Depth(r.group) + 1)
    /\ [](/\ render.pc \in {"loop", "ok"} =>
                /\ Cardinality(CallsMade) = Len(render.built)
                /\ Len(render.built) = Cardinality(Rendered(render.i - 1))
          /\ render.pc \in {"path", "err"} =>
                Cardinality(CallsMade) \in {Len(render.built), Len(render.built) + 1}
          /\ (render.pc = "ok" /\ render.built = <<>>) =>
                (CallsMade = {} /\ group_id_cache = EmptyCache /\ ever_cached = {}))

\* The task of group 3 of the chain 1 <- 2 <- 3 has returned: of its two tokens
\* it skipped one and rendered the other, with one call that asked GitLab for
\* the two ancestors.
C39_Witness ==
    /\ render.pc = "ok"
    /\ Len(render.tokens) = 2
    /\ Len(render.built) = 1
    /\ render.built[1].full_path = <<"a", "/", "b", "/", "c">>
    /\ get_full_path[1].pc = "done"
    /\ Len(get_full_path[1].fetched) = 2
    /\ get_full_path[2].pc = "idle"


\* ---------------------------------------------------------------- the timer
\* C40: the timer can send its first Update as soon as it runs, every send puts
\* one Update into the mailbox, the timer returns only on a failed send, and
\* once the actor's function has returned the timer returns too instead of
\* staying suspended: it sends nothing after that and drops its Sender.
C40_TimerStopsWhenSendFails ==
    /\ (timer_pc = "run" /\ ~ReceiverAlive) ~> (timer_pc # "run")
    /\ []((timer_pc = "run" /\ timer_sent = 0 /\ ReceiverAlive /\ "timer" \in senders
              /\ Len(mailbox) < MailboxCap) => ENABLED TimerSend)
    /\ [](timer_pc = "returned" => (~ReceiverAlive /\ "timer" \notin senders))
    /\ [][timer_sent' # timer_sent =>
              /\ timer_pc = "run" /\ ReceiverAlive
              /\ timer_sent' = timer_sent + 1
              /\ mailbox' = Append(mailbox, MsgUpdate)]_vars
    /\ [][timer_pc' # timer_pc =>
              /\ timer_pc = "run"
              /\ mailbox' = mailbox /\ timer_sent' = timer_sent
              /\ timer_pc' = "returned" => ~ReceiverAlive]_vars

\* The actor refused its configuration and returned with the timer's first
\* Update in the mailbox; the send of the next tick failed and the timer
\* returned.
C40_Witness ==
    /\ Misconfigured
    /\ actor_pc = "returned"
    /\ timer_sent = 1
    /\ mailbox = <<MsgUpdate>>
    /\ timer_pc = "returned"

====
